---- MODULE Spec2Model ----
(***************************************************************************)
(* livetxt: the stateless turn executor (livetxt/worker.py execute_job)    *)
(* with its fake job context, room and participant, and the session-state  *)
(* protocol objects of livetxt/models.py.                                  *)
(*                                                                         *)
(* Time is in milliseconds.  A text is a sequence of code points; bytes    *)
(* are sequences of 0..255.  An optional value is a sequence of length at  *)
(* most one: None is << >> and Some(x) is << x >>.                         *)
(***************************************************************************)
EXTENDS Integers, Sequences, FiniteSets, TLC

\* ------------------------------------------------------------------ bounds
MaxEpSteps == 2        \* steps (besides connect) an entrypoint takes before it ends
MaxItems == 2          \* items the host framework adds to an agent's history
MaxTurns == 2          \* turns of one conversation
MaxSessions == 1       \* AgentSession.start calls of one entrypoint run
MaxListLen == 2        \* elements of a list or tuple held in a state
MaxChatItems == 1      \* chat items of a state handed to model_dump
MaxHandlers == 3       \* handlers registered on a FakeRoom for one event
MaxAgents == 2         \* agent objects alive at once (and distinct ids)
MaxWraps == 3          \* wrapper layers a patch routine may stack up
MaxConcTurns == 2      \* execute_job calls in flight at once
MaxConcItems == 2      \* assistant items one session adds while its turn runs
MaxTools == 2          \* tool methods of one agent
MaxToolCalls == 2      \* records in an agent's call log
MaxHttpReqs == 2
MaxOtherHandlers == 1
MaxGwFrames == 3
MaxGwSteps == 2
MaxGwSessions == 2
MaxGwInbox == 1
MaxWrapCalls == 3

\* ------------------------------------------------------- program constants
InjectDelayMs == 300       \* asyncio.sleep(0.3) of _inject_user_message
PostSleepMs == 1000        \* asyncio.sleep(1.0) after the entrypoint
RunDelayMs == 100          \* asyncio.sleep(0.1) before AgentSession.run

\* ----------------------------------------------------------------- options
None == << >>
Some(x) == << x >>
IsNone(o) == o = << >>
IsSome(o) == o # << >>
Get(o) == o[1]

Min(S) == CHOOSE x \in S : \A y \in S : x <= y

\* ------------------------------------------------------------------- texts
\* Code points: below 128 they are ASCII; 233 is a two-byte character.
SP == 32
COLON == 58
TxtHi == << 104, 105 >>
TxtE == << 233 >>
TxtOk == << 111, 107 >>
TxtGreet == << 72 >>
EchoPrefix == << 69, COLON, SP >>
UserInputs == { TxtHi, TxtE }

\* str.encode("utf-8") for code points below 2048.
RECURSIVE EncodeUtf8(_)
EncodeUtf8(t) ==
    IF t = << >> THEN << >>
    ELSE (IF Head(t) < 128 THEN << Head(t) >>
          ELSE << 192 + (Head(t) \div 64), 128 + (Head(t) % 64) >>)
         \o EncodeUtf8(Tail(t))

\* bytes.decode("utf-8"): Some(text), or None for UnicodeDecodeError.
RECURSIVE DecodeUtf8(_)
DecodeUtf8(b) ==
    IF b = << >> THEN Some(<< >>)
    ELSE IF Head(b) < 128
         THEN LET r == DecodeUtf8(Tail(b))
              IN IF IsNone(r) THEN None ELSE Some(<< Head(b) >> \o Get(r))
    ELSE IF Head(b) >= 194 /\ Head(b) < 224 /\ Len(b) >= 2
            /\ b[2] >= 128 /\ b[2] < 192
         THEN LET r == DecodeUtf8(Tail(Tail(b)))
              IN IF IsNone(r) THEN None
                 ELSE Some(<< (Head(b) - 192) * 64 + (b[2] - 128) >> \o Get(r))
    ELSE None

\* " ".join(parts)
RECURSIVE JoinSpace(_)
JoinSpace(parts) ==
    IF parts = << >> THEN << >>
    ELSE IF Len(parts) = 1 THEN parts[1]
    ELSE parts[1] \o << SP >> \o JoinSpace(Tail(parts))

\* needle in haystack (substring test of Python's `in`)
Contains(hay, needle) ==
    \E i \in 0..(Len(hay) - Len(needle)) :
        \A j \in 1..Len(needle) : hay[i + j] = needle[j]

\* -------------------------------------------------------------- exceptions
\* An exception carries the names of the classes it is an instance of.
ValueErrorT == << 86, 69 >>
TimeoutErrorT == << 84, 69 >>
CancelledErrorT == << 67, 69 >>
ExcValue == [tname |-> ValueErrorT, msg |-> << 98 >>,
             mro |-> {"ValueError", "Exception", "BaseException"}]
ExcTimeout == [tname |-> TimeoutErrorT, msg |-> << >>,
               mro |-> {"TimeoutError", "Exception", "BaseException"}]
ExcCancelled == [tname |-> CancelledErrorT, msg |-> << >>,
                 mro |-> {"CancelledError", "BaseException"}]
EntrypointExceptions == { ExcValue, ExcTimeout, ExcCancelled }
IsInstance(e, cls) == cls \in e.mro


\* ------------------------------------------------------------------- state
VARIABLES
    pc,              \* where execute_job is: idle, await_entry, post_sleep,
                     \* run_delay, run_wait, done (returned), raised (propagated)
    clock,           \* time.time() in ms
    turn,            \* number of execute_job calls so far
    request,         \* the JobRequest: job_id, user_input, state (a reference), timeout_ms
    timeout_ms,      \* the timeout_ms argument (optional)
    heap,            \* SerializableSessionState objects by reference
    start_time,      \* execute_job's start_time
    timeout,         \* execute_job's timeout (ms)
    output_buffer,   \* the turn's output_buffer
    captured_agent,  \* optional: the agent handed to AgentSession.start
    captured_session,\* optional: the session whose start was called
    connected,       \* TextOnlyJobContext._connected
    event_handlers,  \* TextOnlyRoom._event_handlers["data_received"]
    inject_at,       \* optional: when the scheduled _inject_user_message wakes
    ep,              \* the entrypoint: kind, state, wake, steps, sessions, ended
    wake,            \* when the executor's own asyncio.sleep ends
    chat_ctx,        \* the captured agent's history (_chat_ctx)
    AgentSession_start,       \* the class attribute AgentSession.start
    original_start,           \* the value the installed hook's cleanup restores
    AGENT_SESSION_AVAILABLE,  \* module flag of worker.py
    result,          \* optional: the JobResult execute_job returned
    propagated,      \* optional: the exception execute_job let through
    published,       \* history: texts handed to publish_data this turn
    state_at_call,   \* history: value of request.state when execute_job was called
    raised_at,       \* history: optional (exception, time) the entrypoint raised
    delivered,       \* history: optional list of the handlers the injection called
    at_end,          \* history: optional (buffer, published) when the turn ended
    observed         \* history: connect calls, registration times, injections made,
                     \* exceptions the executor caught and logged after the entrypoint,
                     \* whether the chat_ctx fallback produced the buffer

turnvars == << pc, clock, turn, request, timeout_ms, heap, start_time, timeout,
           output_buffer, captured_agent, captured_session, connected,
           event_handlers, inject_at, ep, wake, chat_ctx, AgentSession_start,
           original_start, AGENT_SESSION_AVAILABLE, result, propagated, published,
           state_at_call, raised_at, delivered, at_end, observed >>

\* The library functions beside the turn executor (livetxt/serialization.py,
\* the model classes, livetxt/shim) are driven by a harness: an operation is
\* picked with its input and its outcome is recorded.
VARIABLES
    cop,             \* the serialization function last applied ("none" before any)
    cin,             \* its argument
    cout,            \* its outcome: [raised |-> BOOLEAN, value |-> ...]
    room_handlers,   \* FakeRoom._event_handlers["data_received"]
    emit,            \* FakeRoom._emit_event: state, list index, handlers invoked
    room_class,      \* the class of the room: FakeRoom or TextOnlyRoom
    other_handlers,  \* _event_handlers["participant_connected"]
    room_ret,        \* history: the last room.off call and the lists before it
    PATCHING_APPLIED,\* the flags _PATCHING_APPLIED of shim/auto_patch.py and shim/patch.py
    wrappers,        \* wrapper layers on Agent.__init__, Agent.chat_ctx, agents.AgentSession
    AGENT_STATES,    \* auto_patch._AGENT_STATES: id(agent) -> captured state
    agent_objs,      \* the live agent objects by id: their history, and (history)
                     \* whether their chat_ctx property has been read
    shim_ret,        \* history: the last shim operation, its agent, what it returned
    patched_first,   \* history: the wrapper layers after each routine's first invocation
    cleared,         \* history: ids cleared and not captured since
    class_start,     \* AgentSession.start among concurrent turns: the turns whose
                     \* patched_start closures are stacked on the original, outermost first
    jobs,            \* the concurrent execute_job calls: phase, locals, result
    sessions,        \* the AgentSession objects started: subscribers, agent history
    tool_agent,      \* an agent with tool methods: how many, and per installed layer of
                     \* wrappers the value of the loop variable original_func they share
    call_log,        \* agent._livetxt_function_calls
    tool_ret,        \* history: the last tool invocation and what came of it
    CURRENT_CONTEXT, \* auto_patch._CURRENT_CONTEXT
    http_reqs,       \* the /execute requests in flight: position, input, agent
    gw_client,       \* LiveTxtWorker.start and its LiveTxtClient: position of start,
                     \* _message_handler, the message-loop task, (history) frames
                     \* sent and read, an initial message injected a second time
    gw_inbox,        \* frames the gateway has sent that the client has not read yet
    gw_active,       \* LiveTxtWorker._active_sessions: session id -> context
    wrap_heap,       \* the list objects of a LiveTxtSessionWrapper and its caller:
                     \* 1 is the list made by __init__, 2 the caller's
    wrap_ref,        \* which list wrapper.captured_state["function_calls"] refers to
    wrap_passed,     \* history: the caller's list as it was when it was passed in
    gw_rooms         \* the FakeJobContext objects alive, by order of creation: their
                     \* entrypoint, handlers, injection tasks, (history) events emitted

codecvars == << cop, cin, cout >>
roomvars == << room_handlers, emit, room_class, other_handlers, room_ret >>
shimvars == << PATCHING_APPLIED, wrappers, AGENT_STATES, agent_objs, shim_ret,
               patched_first, cleared >>
concvars == << class_start, jobs, sessions >>
toolvars == << tool_agent, call_log, tool_ret >>
httpvars == << CURRENT_CONTEXT, http_reqs >>
gwvars == << gw_client, gw_inbox, gw_active, gw_rooms >>
wrapvars == << wrap_heap, wrap_ref, wrap_passed >>
morevars == << httpvars, gwvars, wrapvars >>
libvars == << codecvars, roomvars, shimvars, concvars, toolvars, morevars >>
vars == << turnvars, libvars >>
notcodec == << turnvars, roomvars, shimvars, concvars, toolvars, morevars >>
notroom == << turnvars, codecvars, shimvars, concvars, toolvars, morevars >>
notshim == << turnvars, codecvars, roomvars, concvars, toolvars, morevars >>
notconc == << turnvars, codecvars, roomvars, shimvars, toolvars, morevars >>
nottools == << turnvars, codecvars, roomvars, shimvars, concvars, morevars >>
nothttp == << turnvars, codecvars, roomvars, shimvars, concvars, toolvars, gwvars,
             wrapvars >>
notgw == << turnvars, codecvars, roomvars, shimvars, concvars, toolvars, httpvars,
           wrapvars >>
notwrap == << turnvars, codecvars, roomvars, shimvars, concvars, toolvars, httpvars,
             gwvars >>

\* no library function has been called
CodecIdle == cop = "none" /\ cin = << >> /\ cout = << >>
\* a FakeRoom as constructed: no handlers, nothing emitted
RoomIdle ==
    /\ room_handlers = << >>
    /\ room_class = "FakeRoom"
    /\ other_handlers = << >>
    /\ room_ret = [op |-> "none"]
    /\ emit = [state |-> "idle", idx |-> 0, at_start |-> << >>, invoked |-> << >>,
               escaped |-> << >>]
\* the shim modules as imported: nothing patched, nothing captured
ShimIdle ==
    /\ PATCHING_APPLIED = [auto |-> FALSE, sdk |-> FALSE]
    /\ wrappers = [init |-> 0, chat_ctx |-> 0, session |-> 0]
    /\ AGENT_STATES = << >>
    /\ agent_objs = << >>
    /\ shim_ret = [op |-> "none", agent |-> 0, value |-> "", before |-> << >>]
    /\ patched_first = [auto |-> << >>, sdk |-> << >>]
    /\ cleared = {}
\* no concurrent turn has been started: AgentSession.start is the original
ConcIdle ==
    /\ class_start = << >>
    /\ jobs = << >>
    /\ sessions = << >>
\* no agent with tools has been created
ToolsIdle ==
    /\ tool_agent = [tools |-> 0, cells |-> << >>]
    /\ call_log = << >>
    /\ tool_ret = [op |-> "none"]
\* no /execute request has arrived: the context is the module's empty dict
HttpIdle ==
    /\ CURRENT_CONTEXT = << >>
    /\ http_reqs = << >>
\* a LiveTxtWorker as constructed: not started, no session
GwIdle ==
    /\ gw_client = [pc |-> "init", handler |-> << >>, loop |-> "none", room |-> 0,
                    sent |-> 0, unhandled |-> 0, last_read |-> "none",
                    last_end |-> "none", reinjected |-> FALSE]
    /\ gw_inbox = << >>
    /\ gw_active = << >>
    /\ gw_rooms = << >>
\* a LiveTxtSessionWrapper as constructed, and a caller with an empty list
WrapIdle ==
    /\ wrap_heap = << << >>, << >> >>
    /\ wrap_ref = 1
    /\ wrap_passed = << >>
LibIdle ==
    /\ CodecIdle /\ RoomIdle /\ ShimIdle /\ ConcIdle /\ ToolsIdle /\ HttpIdle /\ GwIdle
    /\ WrapIdle

\* ------------------------------------------------------------ input domains
\* (timeout_ms argument, request.timeout_ms)
TimeoutInputs == { << None, 2000 >>, << Some(0), 1200 >>, << Some(500), 2000 >>,
                   << None, 0 >> }
EpKinds == { "async", "sync" }
EpSleeps == { 200, 500 }
HandlerKinds == { "echo", "greeter", "raiser" }
MetaUser == [k \in {"user"} |-> << 65 >>]
MetaEmpty == [k \in {} |-> << >>]
SessionItems == { [role |-> "user", content |-> TxtHi],
                  [role |-> "assistant", content |-> TxtOk] }
RunDurations == { 0, 500 }

\* data handed to publish_data: bytes, or (mis-typed) a str
PublishChoices == { [kind |-> "bytes", val |-> EncodeUtf8(TxtE), text |-> Some(TxtE)],
                    [kind |-> "str", val |-> TxtOk, text |-> Some(TxtOk)],
                    [kind |-> "bytes", val |-> << 255 >>, text |-> None] }

\* ChatContext.to_dict(...)["items"]: one dict per history item
ToDictItems(ctx) ==
    [i \in 1..Len(ctx) |->
        [type |-> "message", role |-> ctx[i].role, content |-> << ctx[i].content >>]]

\* what the caller starts with: a new conversation (an empty state), or one
\* restored from a store with three items of history and caller metadata
Conversations ==
    { [user_input |-> TxtHi,
       state |-> [chat_items |-> << >>, metadata |-> MetaEmpty]],
      [user_input |-> TxtE,
       state |-> [chat_items |-> ToDictItems(<< [role |-> "user", content |-> TxtHi],
                                                [role |-> "assistant", content |-> TxtOk],
                                                [role |-> "assistant", content |-> TxtE] >>),
                  metadata |-> MetaUser]] }

\* --------------------------------------------------------- models.py
\* SerializableSessionState.from_chat_context(chat_ctx, metadata=None)
from_chat_context(ctx) ==
    [chat_items |-> ToDictItems(ctx), metadata |-> MetaEmpty]

\* JobResult(job_id=..., status=..., ...) with the defaults of the model class
JobResult(job_id, status, response_text, updated_state, error, processing_time_ms) ==
    [job_id |-> job_id, status |-> status, response_text |-> response_text,
     updated_state |-> updated_state, error |-> error,
     processing_time_ms |-> processing_time_ms]

\* --------------------------------------------------------- worker.py helpers
\* timeout = (timeout_ms or request.timeout_ms)
EffectiveTimeout(arg, req) ==
    IF IsSome(arg) /\ Get(arg) # 0 THEN Get(arg) ELSE req.timeout_ms

\* a capture that keeps the raw bytes instead of decoding them
capture_without_decode(buf, data) == Append(buf, data.val)

\* a capture that puts the newest message first
capture_prepends(buf, data) ==
    IF data.kind = "bytes"
    THEN LET m == DecodeUtf8(data.val)
         IN IF IsNone(m) THEN buf ELSE << Get(m) >> \o buf
    ELSE << data.val >> \o buf

\* TextOnlyRoom._capture_agent_output: decode bytes (str() anything else) and
\* append; a decoding error is logged and nothing is appended.
_capture_agent_output(buf, data) ==
    IF data.kind = "bytes"
    THEN LET m == DecodeUtf8(data.val)
         IN IF IsNone(m) THEN buf ELSE Append(buf, Get(m))
    ELSE Append(buf, data.val)

\* FakeParticipant.publish_data: the local participant's override is the
\* synchronous _capture_agent_output, which is called directly.
publish_data(buf, data) == _capture_agent_output(buf, data)

\* The data_received handlers of the agents in the tests: echo publishes
\* "E: " + message, greeter publishes a fixed text, raiser raises.
\* The result is the data the handler publishes, if any.
HandlerPublishes(h, data) ==
    IF h = "echo"
    THEN LET m == DecodeUtf8(data)
         IN IF IsNone(m) THEN None
            ELSE Some([kind |-> "bytes", val |-> EncodeUtf8(EchoPrefix \o Get(m)),
                       text |-> Some(EchoPrefix \o Get(m))])
    ELSE IF h = "greeter"
    THEN Some([kind |-> "bytes", val |-> EncodeUtf8(TxtGreet), text |-> Some(TxtGreet)])
    ELSE None

\* _inject_user_message's loop: every handler in registration order, an
\* exception of a handler caught and logged.
RECURSIVE InjectLoop(_, _, _)
InjectLoop(handlers, data, buf) ==
    IF handlers = << >> THEN buf
    ELSE LET p == HandlerPublishes(Head(handlers), data)
         IN InjectLoop(Tail(handlers), data,
                       IF IsNone(p) THEN buf ELSE publish_data(buf, Get(p)))

\* history: the texts those handlers hand to publish_data, in order
RECURSIVE InjectPublished(_, _)
InjectPublished(handlers, data) ==
    IF handlers = << >> THEN << >>
    ELSE LET p == HandlerPublishes(Head(handlers), data)
         IN (IF IsNone(p) \/ IsNone(Get(p).text) THEN << >> ELSE << Get(Get(p).text) >>)
            \o InjectPublished(Tail(handlers), data)

\* the handlers that loop calls: a handler's Exception is caught (lines 98-99)
\* and the loop goes on; were it not caught, the loop would end there
RECURSIVE InjectInvoked(_, _)
InjectInvoked(handlers, caught) ==
    IF handlers = << >> THEN << >>
    ELSE << Head(handlers) >>
         \o (IF Head(handlers) = "raiser" /\ ~caught THEN << >>
             ELSE InjectInvoked(Tail(handlers), caught))

HandlersInvoked(handlers) == InjectInvoked(handlers, TRUE)

\* error details that name the type only
ErrorDetails_TypeOnly(e) == e.tname

\* error_details = f"{type(e).__name__}: {str(e)}"
ErrorDetails(e) == e.tname \o << COLON, SP >> \o e.msg

\* f"Job execution exceeded timeout of {timeout_ms}ms": the text is abbreviated
\* to "T" followed by the rendering of the argument ("N" for None, else one
\* token 1000 + n for the number n).
TimeoutErrorText(arg) ==
    << 84 >> \o (IF IsNone(arg) THEN << 78 >> ELSE << 1000 + Get(arg) >>)

\* the fallback of lines 350-384: every assistant item of the agent's chat_ctx
RECURSIVE AssistantContents(_)
AssistantContents(ctx) ==
    IF ctx = << >> THEN << >>
    ELSE (IF Head(ctx).role = "assistant" THEN << Head(ctx).content >> ELSE << >>)
         \o AssistantContents(Tail(ctx))

FallbackScan(buf, agent, ctx) ==
    IF buf = << >> /\ IsSome(agent) /\ Get(agent).has_chat_ctx
    THEN AssistantContents(ctx)
    ELSE buf

\* a response text that joins even an empty buffer
ResponseText_AlwaysJoin(buf) == Some(JoinSpace(buf))

\* response_text = " ".join(output_buffer) if output_buffer else None
ResponseText(buf) == IF buf # << >> THEN Some(JoinSpace(buf)) ELSE None


\* except clauses that catch the timeout only
Classify_NoCatchAll(e) ==
    IF IsInstance(e, "TimeoutError") THEN "timeout" ELSE "propagate"

\* except asyncio.TimeoutError / except Exception, in the order of the source
ClassifyException(e) ==
    IF IsInstance(e, "TimeoutError") THEN "timeout"
    ELSE IF IsInstance(e, "Exception") THEN "error"
    ELSE "propagate"

\* patched_start's is_text_based_llm: a realtime model is replaced by a text
\* LLM (when the replacement can be built), a type named ...LLM is text based.
IsTextBasedLlm(llm, replaced) ==
    IF llm = "none" THEN FALSE
    ELSE IF llm = "RealtimeModel" THEN replaced
    ELSE llm = "LLM"

\* result.last_message of AgentSession.run: the last assistant message
RECURSIVE LastAssistant(_)
LastAssistant(ctx) ==
    IF ctx = << >> THEN None
    ELSE IF ctx[Len(ctx)].role = "assistant" THEN Some(ctx[Len(ctx)].content)
    ELSE LastAssistant(SubSeq(ctx, 1, Len(ctx) - 1))

\* updated_state.metadata["last_turn"] = {...}
WithLastTurn(meta, user_input, response_text, now) ==
    [k \in DOMAIN meta \cup {"last_turn"} |->
        IF k = "last_turn"
        THEN << user_input, response_text, << now >> >>
        ELSE meta[k]]

\* ---------------------------------------------------------------- the turn
Awaiting == { "await_entry", "post_sleep", "run_delay", "run_wait" }

\* a finally clause that leaves the hook in place
Cleanup_LeavesHook == AgentSession_start

\* the finally clause: cleanup_hook() when a hook was installed
Cleanup == IF AGENT_SESSION_AVAILABLE THEN original_start ELSE AgentSession_start

\* a timeout result that keeps what was buffered
TimeoutResult_KeepsPartial ==
    JobResult(request.job_id, "timeout", ResponseText(output_buffer), None,
              Some(TimeoutErrorText(timeout_ms)), clock - start_time)

\* except asyncio.TimeoutError: the result built at lines 425-430
TimeoutResult ==
    JobResult(request.job_id, "timeout", None, None,
              Some(TimeoutErrorText(timeout_ms)), clock - start_time)

ErrorResult(e) ==
    JobResult(request.job_id, "error", None, None,
              Some(ErrorDetails(e)), clock - start_time)

\* history of a turn in which nothing has happened yet
NothingObserved ==
    [reconnected |-> FALSE, connected_at |-> None, registered_at |-> << >>,
     injections |-> << >>, swallowed |-> {}, fallback |-> FALSE]

\* the state before execute_job is called
InitTurn ==
    /\ pc = "idle"
    /\ clock = 0
    /\ turn = 0
    /\ \E c \in Conversations, t \in TimeoutInputs :
          /\ request = [job_id |-> "job_1", user_input |-> c.user_input, state |-> 1,
                        timeout_ms |-> t[2]]
          /\ timeout_ms = t[1]
          /\ heap = << c.state >>
    /\ start_time = 0
    /\ timeout = 0
    /\ output_buffer = << >>
    /\ captured_agent = None
    /\ captured_session = None
    /\ connected = FALSE
    /\ event_handlers = << >>
    /\ inject_at = None
    /\ \E k \in EpKinds :
          ep = [kind |-> k, state |-> "none", wake |-> 0, steps |-> 0, sessions |-> 0,
                ended |-> None]
    /\ wake = 0
    /\ chat_ctx = << >>
    /\ AgentSession_start = "original"
    /\ original_start = "original"
    /\ AGENT_SESSION_AVAILABLE \in BOOLEAN
    /\ result = None
    /\ propagated = None
    /\ published = << >>
    /\ state_at_call = [chat_items |-> << >>, metadata |-> MetaEmpty]
    /\ raised_at = None
    /\ delivered = None
    /\ at_end = None
    /\ observed = NothingObserved

Init == InitTurn /\ LibIdle

\* one fixed caller, for the specifications that do not run a turn
TurnIdle ==
    /\ InitTurn
    /\ request.user_input = TxtHi
    /\ request.timeout_ms = 2000
    /\ timeout_ms = None
    /\ ep.kind = "async"
    /\ AGENT_SESSION_AVAILABLE

\* where the specifications of the library functions start
InitLib == TurnIdle /\ LibIdle

\* execute_job up to its first suspension: start_time, timeout, a fresh
\* buffer and context, the start hook, then wait_for(_execute_with_timeout()).
\* wait_for with a timeout <= 0 cancels the task before it ever runs.
Call ==
    /\ pc = "idle"
    /\ turn' = turn + 1
    /\ start_time' = clock
    /\ timeout' = EffectiveTimeout(timeout_ms, request)
    /\ output_buffer' = << >>
    /\ captured_agent' = None
    /\ captured_session' = None
    /\ connected' = FALSE
    /\ event_handlers' = << >>
    /\ inject_at' = None
    /\ chat_ctx' = << >>
    /\ published' = << >>
    /\ raised_at' = None
    /\ delivered' = None
    /\ propagated' = None
    /\ state_at_call' = heap[request.state]
    /\ observed' = NothingObserved
    /\ original_start' = IF AGENT_SESSION_AVAILABLE THEN AgentSession_start
                         ELSE original_start
    /\ IF timeout' <= 0
       THEN /\ pc' = "done"
            /\ result' = Some(JobResult(request.job_id, "timeout", None, None,
                                        Some(TimeoutErrorText(timeout_ms)), 0))
            /\ ep' = [ep EXCEPT !.state = "never_started", !.steps = 0, !.sessions = 0,
                                !.ended = None]
            /\ AgentSession_start' = AgentSession_start
            /\ at_end' = Some([buffer |-> << >>, published |-> << >>])
       ELSE /\ pc' = "await_entry"
            /\ result' = None
            /\ ep' = [ep EXCEPT !.state = "ready", !.steps = 0, !.sessions = 0,
                                !.ended = None]
            /\ AgentSession_start' = IF AGENT_SESSION_AVAILABLE THEN "patched"
                                     ELSE AgentSession_start
            /\ at_end' = None
    /\ UNCHANGED << libvars, clock, request, timeout_ms, heap, wake, AGENT_SESSION_AVAILABLE >>

EpCanStep == pc = "await_entry" /\ ep.state = "ready" /\ ep.steps < MaxEpSteps

\* a connect that schedules an injection on every call
connect_Reschedules(was_connected, pending, now) == Some(now + InjectDelayMs)

\* TextOnlyJobContext.connect: the wake-up time of the injection task, which
\* only the first call creates
connect(was_connected, pending, now) ==
    IF was_connected THEN pending ELSE Some(now + InjectDelayMs)

\* await ctx.connect()
EpConnect ==
    /\ pc = "await_entry"
    /\ ep.state = "ready"
    /\ ep.kind = "async"
    /\ ep' = ep
    /\ connected' = TRUE
    /\ inject_at' = connect(connected, inject_at, clock)
    /\ observed' = IF connected THEN [observed EXCEPT !.reconnected = TRUE]
                   ELSE [observed EXCEPT !.connected_at = Some(clock)]
    /\ UNCHANGED << libvars, pc, clock, turn, request, timeout_ms, heap, start_time, timeout,
                    output_buffer, captured_agent, captured_session, event_handlers,
                    wake, chat_ctx, AgentSession_start, original_start,
                    AGENT_SESSION_AVAILABLE, result, propagated, published,
                    state_at_call, raised_at, delivered, at_end >>

\* ctx.room.on("data_received", handler)
EpRegister(h) ==
    /\ EpCanStep
    /\ ep' = [ep EXCEPT !.steps = @ + 1]
    /\ event_handlers' = Append(event_handlers, h)
    /\ observed' = [observed EXCEPT !.registered_at = Append(@, clock)]
    /\ UNCHANGED << libvars, pc, clock, turn, request, timeout_ms, heap, start_time, timeout,
                    output_buffer, captured_agent, captured_session, connected,
                    inject_at, wake, chat_ctx, AgentSession_start, original_start,
                    AGENT_SESSION_AVAILABLE, result, propagated, published,
                    state_at_call, raised_at, delivered, at_end >>

\* ctx.room.local_participant.publish_data(data) from the entrypoint itself
EpPublish(d) ==
    /\ EpCanStep
    /\ ep' = [ep EXCEPT !.steps = @ + 1]
    /\ output_buffer' = publish_data(output_buffer, d)
    /\ published' = IF IsSome(d.text) THEN Append(published, Get(d.text)) ELSE published
    /\ UNCHANGED << libvars, observed, pc, clock, turn, request, timeout_ms, heap, start_time, timeout,
                    captured_agent, captured_session, connected, event_handlers,
                    inject_at, wake, chat_ctx, AgentSession_start, original_start,
                    AGENT_SESSION_AVAILABLE, result, propagated, state_at_call,
                    raised_at, delivered, at_end >>

\* the entrypoint waits (a sleep, a model call) for d ms
EpSleep(d) ==
    /\ EpCanStep
    /\ ep' = [ep EXCEPT !.steps = @ + 1, !.state = "sleeping", !.wake = clock + d]
    /\ UNCHANGED << libvars, observed, pc, clock, turn, request, timeout_ms, heap, start_time, timeout,
                    output_buffer, captured_agent, captured_session, connected,
                    event_handlers, inject_at, wake, chat_ctx, AgentSession_start,
                    original_start, AGENT_SESSION_AVAILABLE, result, propagated,
                    published, state_at_call, raised_at, delivered, at_end >>

EpWake ==
    /\ pc = "await_entry"
    /\ ep.state = "sleeping"
    /\ clock >= ep.wake
    /\ ep' = [ep EXCEPT !.state = "ready"]
    /\ UNCHANGED << libvars, observed, pc, clock, turn, request, timeout_ms, heap, start_time, timeout,
                    output_buffer, captured_agent, captured_session, connected,
                    event_handlers, inject_at, wake, chat_ctx, AgentSession_start,
                    original_start, AGENT_SESSION_AVAILABLE, result, propagated,
                    published, state_at_call, raised_at, delivered, at_end >>


\* await session.start(agent=..., room=ctx.room) under the installed hook:
\* patched_start records the session, the agent (when one is given) and the
\* session's _livetxt_use_run_method flag.  A fresh agent has an empty history.
\* restored: the entrypoint built the agent with the history of the request's
\* state (Agent(chat_ctx=ctx.request.state.to_chat_context())).
AgentChoices ==
    { [given |-> FALSE, has_chat_ctx |-> FALSE, llm |-> "none", restored |-> FALSE],
      [given |-> TRUE, has_chat_ctx |-> FALSE, llm |-> "none", restored |-> FALSE],
      [given |-> TRUE, has_chat_ctx |-> TRUE, llm |-> "none", restored |-> FALSE],
      [given |-> TRUE, has_chat_ctx |-> TRUE, llm |-> "none", restored |-> TRUE],
      [given |-> TRUE, has_chat_ctx |-> TRUE, llm |-> "LLM", restored |-> FALSE],
      [given |-> TRUE, has_chat_ctx |-> TRUE, llm |-> "RealtimeModel", restored |-> FALSE] }

\* SerializableSessionState.to_chat_context: the history the chat items hold
to_chat_context(state) ==
    [i \in 1..Len(state.chat_items) |->
        [role |-> state.chat_items[i].role, content |-> state.chat_items[i].content[1]]]

EpStartSession(a, replaced) ==
    /\ EpCanStep
    /\ ep.kind = "async"
    /\ AgentSession_start = "patched"
    /\ ep.sessions < MaxSessions
    /\ ep' = [ep EXCEPT !.steps = @ + 1, !.sessions = @ + 1]
    /\ captured_session' =
          Some([use_run |-> a.given /\ IsTextBasedLlm(a.llm, replaced)])
    /\ captured_agent' = IF a.given THEN Some([has_chat_ctx |-> a.has_chat_ctx])
                         ELSE captured_agent
    /\ chat_ctx' = IF ~a.given THEN chat_ctx
                   ELSE IF a.restored THEN to_chat_context(heap[request.state])
                   ELSE << >>
    /\ UNCHANGED << libvars, observed, pc, clock, turn, request, timeout_ms, heap, start_time, timeout,
                    output_buffer, connected, event_handlers, inject_at, wake,
                    AgentSession_start, original_start, AGENT_SESSION_AVAILABLE,
                    result, propagated, published, state_at_call, raised_at, delivered, at_end >>

\* The host framework adds an item to the agent's history and emits
\* conversation_item_added; on_conversation_item captures assistant text.
SessionItem(item) ==
    /\ pc \in { "await_entry", "post_sleep", "run_wait" }
    /\ IsSome(captured_session)
    /\ IsSome(captured_agent)
    /\ Len(chat_ctx) < MaxItems
    /\ chat_ctx' = Append(chat_ctx, item)
    /\ output_buffer' = IF item.role = "assistant"
                        THEN Append(output_buffer, item.content)
                        ELSE output_buffer
    /\ UNCHANGED << libvars, observed, pc, clock, turn, request, timeout_ms, heap, start_time, timeout,
                    captured_agent, captured_session, connected, event_handlers,
                    inject_at, ep, wake, AgentSession_start, original_start,
                    AGENT_SESSION_AVAILABLE, result, propagated, published,
                    state_at_call, raised_at, delivered, at_end >>

\* lines 349-419, which run without suspending: the chat_ctx fallback, the
\* response text, the updated state and the success result.
\* scan_ok: whether the fallback reads the agent's chat_ctx without an
\* exception; serialized: whether from_chat_context succeeds; caught: the
\* steps before these whose exception was caught and logged.
Collect(buf0, scan_ok, serialized, caught) ==
    LET from_agent == IsSome(captured_agent) /\ Get(captured_agent).has_chat_ctx
        scans == buf0 = << >> /\ from_agent
        buf == IF scans /\ ~scan_ok THEN buf0
               ELSE FallbackScan(buf0, captured_agent, chat_ctx)
        response_text == ResponseText(buf)
        fresh == from_agent /\ serialized
        updated == IF fresh THEN Len(heap) + 1 ELSE request.state
    IN /\ output_buffer' = buf
       /\ observed' = [observed EXCEPT
              !.fallback = scans /\ scan_ok,
              !.swallowed =
                  caught \cup (IF scans /\ ~scan_ok THEN { "scan" } ELSE {})
                         \cup (IF from_agent /\ ~serialized THEN { "extract" } ELSE {})]
       /\ heap' = IF fresh THEN Append(heap, from_chat_context(chat_ctx))
                  ELSE IF from_agent THEN heap
                  ELSE [heap EXCEPT ![request.state].metadata =
                           WithLastTurn(@, request.user_input, response_text, clock)]
       /\ result' = Some(JobResult(request.job_id, "success", response_text,
                                   Some(updated), None, clock - start_time))
       /\ pc' = "done"
       /\ AgentSession_start' = Cleanup
       /\ at_end' = Some([buffer |-> buf, published |-> published])

\* the entrypoint returns: _execute_with_timeout goes on to drive the
\* captured session (text LLM) or to sleep 1.0 s
EpReturn ==
    /\ pc = "await_entry"
    /\ ep.state = "ready"
    /\ ep' = [ep EXCEPT !.state = "returned", !.ended = Some(clock)]
    /\ IF IsSome(captured_session) /\ Get(captured_session).use_run
       THEN pc' = "run_delay" /\ wake' = clock + RunDelayMs
       ELSE pc' = "post_sleep" /\ wake' = clock + PostSleepMs
    /\ UNCHANGED << libvars, observed, clock, turn, request, timeout_ms, heap, start_time, timeout,
                    output_buffer, captured_agent, captured_session, connected,
                    event_handlers, inject_at, chat_ctx, AgentSession_start,
                    original_start, AGENT_SESSION_AVAILABLE, result, propagated,
                    published, state_at_call, raised_at, delivered, at_end >>

\* the entrypoint raises e: the except clauses of execute_job, then finally
EpRaise(e) ==
    /\ pc = "await_entry"
    /\ ep.state = "ready"
    /\ ep' = [ep EXCEPT !.state = "raised", !.ended = Some(clock)]
    /\ raised_at' = Some([exc |-> e, at |-> clock])
    /\ at_end' = Some([buffer |-> output_buffer, published |-> published])
    /\ LET c == ClassifyException(e)
       IN /\ result' = IF c = "timeout" THEN Some(TimeoutResult)
                       ELSE IF c = "error" THEN Some(ErrorResult(e))
                       ELSE None
          /\ propagated' = IF c = "propagate" THEN Some(e) ELSE None
          /\ pc' = IF c = "propagate" THEN "raised" ELSE "done"
    /\ AgentSession_start' = Cleanup
    /\ UNCHANGED << libvars, observed, clock, turn, request, timeout_ms, heap, start_time, timeout,
                    output_buffer, captured_agent, captured_session, connected,
                    event_handlers, inject_at, wake, chat_ctx, original_start,
                    AGENT_SESSION_AVAILABLE, published, state_at_call, delivered >>

\* after the 0.1 s pause: await captured_session.run(user_input=...)
RunStart(d) ==
    /\ pc = "run_delay"
    /\ clock >= wake
    /\ pc' = "run_wait"
    /\ wake' = clock + d
    /\ UNCHANGED << libvars, observed, clock, turn, request, timeout_ms, heap, start_time, timeout,
                    output_buffer, captured_agent, captured_session, connected,
                    event_handlers, inject_at, ep, chat_ctx, AgentSession_start,
                    original_start, AGENT_SESSION_AVAILABLE, result, propagated,
                    published, state_at_call, raised_at, delivered, at_end >>

\* run() ends: its last message is appended, or its exception is logged;
\* the result is collected without another suspension
RunFinish(ok, scan_ok, serialized) ==
    /\ pc = "run_wait"
    /\ clock >= wake
    /\ LET m == LastAssistant(chat_ctx)
       IN Collect(IF ok /\ IsSome(m) THEN Append(output_buffer, Get(m))
                  ELSE output_buffer, scan_ok, serialized,
                  IF ok THEN {} ELSE { "run" })
    /\ UNCHANGED << libvars, clock, turn, request, timeout_ms, start_time, timeout,
                    captured_agent, captured_session, connected, event_handlers,
                    inject_at, ep, wake, chat_ctx, original_start,
                    AGENT_SESSION_AVAILABLE, propagated, published, state_at_call,
                    raised_at, delivered >>

\* the 1.0 s sleep ends: the result is collected
PostWake(scan_ok, serialized) ==
    /\ pc = "post_sleep"
    /\ clock >= wake
    /\ Collect(output_buffer, scan_ok, serialized, {})
    /\ UNCHANGED << libvars, clock, turn, request, timeout_ms, start_time, timeout,
                    captured_agent, captured_session, connected, event_handlers,
                    inject_at, ep, wake, chat_ctx, original_start,
                    AGENT_SESSION_AVAILABLE, propagated, published, state_at_call,
                    raised_at, delivered >>

\* the task _inject_user_message wakes after 0.3 s and calls the handlers
Inject ==
    /\ pc # "idle"
    /\ IsSome(inject_at)
    /\ clock >= Get(inject_at)
    /\ inject_at' = None
    /\ delivered' = Some(event_handlers)
    /\ LET data == EncodeUtf8(request.user_input)
       IN /\ output_buffer' = InjectLoop(event_handlers, data, output_buffer)
          /\ published' = published \o InjectPublished(event_handlers, data)
          /\ observed' = [observed EXCEPT !.injections = Append(@,
                [at |-> clock, data |-> data, topic |-> "lk.chat",
                 participant |-> "user",
                 handlers |-> HandlersInvoked(event_handlers),
                 returned |-> pc \in { "done", "raised" }])]
    /\ UNCHANGED << libvars, pc, clock, turn, request, timeout_ms, heap, start_time, timeout,
                    captured_agent, captured_session, connected, event_handlers,
                    ep, wake, chat_ctx, AgentSession_start, original_start,
                    AGENT_SESSION_AVAILABLE, result, propagated, state_at_call,
                    raised_at, at_end >>

\* the timer of wait_for fires: the turn is cancelled (a synchronous
\* entrypoint keeps running on its thread), except asyncio.TimeoutError
TimeoutFire ==
    /\ pc \in Awaiting
    /\ clock >= start_time + timeout
    /\ result' = Some(TimeoutResult)
    /\ at_end' = Some([buffer |-> output_buffer, published |-> published])
    /\ pc' = "done"
    /\ ep' = [ep EXCEPT !.state =
                 IF @ \in { "ready", "sleeping" }
                 THEN (IF ep.kind = "async" THEN "cancelled" ELSE "orphaned")
                 ELSE @]
    /\ AgentSession_start' = Cleanup
    /\ UNCHANGED << libvars, observed, clock, turn, request, timeout_ms, heap, start_time, timeout,
                    output_buffer, captured_agent, captured_session, connected,
                    event_handlers, inject_at, wake, chat_ctx, original_start,
                    AGENT_SESSION_AVAILABLE, propagated, published, state_at_call,
                    raised_at, delivered >>

\* timers not yet served
Pending ==
    (IF pc \in Awaiting THEN { start_time + timeout } ELSE {})
    \cup (IF pc \in { "post_sleep", "run_delay", "run_wait" } THEN { wake } ELSE {})
    \cup (IF pc = "await_entry" /\ ep.state = "sleeping" THEN { ep.wake } ELSE {})
    \cup (IF pc # "idle" /\ IsSome(inject_at) THEN { Get(inject_at) } ELSE {})

\* time passes to the next timer, when nothing is runnable now
Advance ==
    /\ ~(pc = "await_entry" /\ ep.state = "ready")
    /\ Pending # {}
    /\ \A t \in Pending : t > clock
    /\ clock' = Min(Pending)
    /\ UNCHANGED << libvars, observed, pc, turn, request, timeout_ms, heap, start_time, timeout,
                    output_buffer, captured_agent, captured_session, connected,
                    event_handlers, inject_at, ep, wake, chat_ctx,
                    AgentSession_start, original_start, AGENT_SESSION_AVAILABLE,
                    result, propagated, published, state_at_call, raised_at, delivered, at_end >>

\* the caller feeds the returned updated_state into the next request
NextTurn(u) ==
    /\ pc = "done"
    /\ turn < MaxTurns
    /\ IsSome(result)
    /\ Get(result).status = "success"
    /\ request' = [job_id |-> "job_2", user_input |-> u,
                   state |-> Get(Get(result).updated_state),
                   timeout_ms |-> request.timeout_ms]
    /\ pc' = "idle"
    /\ result' = None
    /\ UNCHANGED << libvars, observed, clock, turn, timeout_ms, heap, start_time, timeout,
                    output_buffer, captured_agent, captured_session, connected,
                    event_handlers, inject_at, ep, wake, chat_ctx,
                    AgentSession_start, original_start, AGENT_SESSION_AVAILABLE,
                    propagated, published, state_at_call, raised_at, delivered, at_end >>

Next ==
    \/ Call
    \/ EpConnect
    \/ \E h \in HandlerKinds : EpRegister(h)
    \/ \E d \in PublishChoices : EpPublish(d)
    \/ \E d \in EpSleeps : EpSleep(d)
    \/ EpWake
    \/ \E a \in AgentChoices :
          \E r \in (IF a.llm = "RealtimeModel" THEN BOOLEAN ELSE { TRUE }) :
             EpStartSession(a, r)
    \/ \E i \in SessionItems : SessionItem(i)
    \/ EpReturn
    \/ \E e \in EntrypointExceptions : EpRaise(e)
    \/ \E d \in RunDurations : RunStart(d)
    \/ \E ok \in BOOLEAN, sc \in BOOLEAN, s \in BOOLEAN : RunFinish(ok, sc, s)
    \/ \E sc \in BOOLEAN, s \in BOOLEAN : PostWake(sc, s)
    \/ Inject
    \/ TimeoutFire
    \/ Advance

Spec == Init /\ [][Next]_vars

\* A conversation of several turns of a session agent, each fed the state
\* the turn before returned.
NextChain ==
    \/ Call
    \/ \E a \in AgentChoices :
          \E r \in (IF a.llm = "RealtimeModel" THEN BOOLEAN ELSE { TRUE }) :
             EpStartSession(a, r)
    \/ \E i \in SessionItems : SessionItem(i)
    \/ EpReturn
    \/ \E e \in EntrypointExceptions : EpRaise(e)
    \/ \E d \in RunDurations : RunStart(d)
    \/ \E ok \in BOOLEAN, sc \in BOOLEAN, s \in BOOLEAN : RunFinish(ok, sc, s)
    \/ \E sc \in BOOLEAN, s \in BOOLEAN : PostWake(sc, s)
    \/ TimeoutFire
    \/ Advance
    \/ \E u \in UserInputs : NextTurn(u)

SpecChain == Init /\ [][NextChain]_vars


\* ============================================== serialization (pure functions)
\* A Python value is a record of its type t and payload v: a str, an int, a
\* list or a tuple (a sequence of values), a dict (a function from its str
\* keys to values), None.
PyStr(x) == [t |-> "str", v |-> x]
PyInt(n) == [t |-> "int", v |-> n]
PyList(xs) == [t |-> "list", v |-> xs]
PyTuple(xs) == [t |-> "tuple", v |-> xs]
PyNone == [t |-> "None", v |-> << >>]
EmptyDict == [k \in {} |-> PyNone]
PyDict(f) == [t |-> "dict", v |-> f]

\* bool(x)
Truthy(x) ==
    IF x.t = "None" THEN FALSE
    ELSE IF x.t = "str" THEN x.v # ""
    ELSE IF x.t = "int" THEN x.v # 0
    ELSE IF x.t = "dict" THEN DOMAIN x.v # {}
    ELSE x.v # << >>

\* d.get(k, default) of a dict d
DictGet(d, k, default) == IF k \in DOMAIN d.v THEN d.v[k] ELSE default

\* a dict of one key
Dict1(k, x) == PyDict([i \in { k } |-> x])

\* sequences over S of length at most n
SeqsUpTo(S, n) == UNION { [1..k -> S] : k \in 0..n }

PyAtoms == { PyStr("a"), PyInt(1) }
PyValues ==
    PyAtoms
    \cup { PyList(xs) : xs \in SeqsUpTo(PyAtoms, MaxListLen) }
    \cup { PyTuple(xs) : xs \in SeqsUpTo(PyAtoms, MaxListLen) }
    \cup { PyList(<< PyTuple(<< PyInt(1) >>) >>) }

\* the values JSON has: no tuple at any depth
RECURSIVE IsJsonValue(_)
IsJsonValue(x) ==
    IF x.t \in { "list", "tuple" }
    THEN x.t = "list" /\ \A i \in 1..Len(x.v) : IsJsonValue(x.v[i])
    ELSE TRUE

\* pydantic's serialization of a value of type Any in mode="json": a tuple
\* becomes a list, element by element; str, int and list are kept.
RECURSIVE ToJsonable(_)
ToJsonable(x) ==
    IF x.t \in { "list", "tuple" }
    THEN PyList([i \in 1..Len(x.v) |-> ToJsonable(x.v[i])])
    ELSE x

\* a serialization that keeps only the first element of a list
ToJsonable_Truncates(x) ==
    IF x.t \in { "list", "tuple" } /\ Len(x.v) > 1
    THEN PyList(<< ToJsonable(x.v[1]) >>)
    ELSE ToJsonable(x)

\* a dump that keeps only the first element of each list
DumpDict_Truncates(d) == [k \in DOMAIN d |-> ToJsonable_Truncates(d[k])]

\* the dump of a dict field: every value serialized, the keys kept
DumpDict(d) == [k \in DOMAIN d |-> ToJsonable(d[k])]

\* SerializableSessionState.model_dump(): super().model_dump(mode="json")
model_dump(s) ==
    [f \in { "chat_items", "metadata" } |->
        IF f = "chat_items"
        THEN [i \in 1..Len(s.chat_items) |-> DumpDict(s.chat_items[i])]
        ELSE DumpDict(s.metadata)]

\* SerializableSessionState(**kwargs): a field that is not given takes its
\* default_factory (list, dict)
SerializableSessionState(kwargs) ==
    [chat_items |-> IF "chat_items" \in DOMAIN kwargs THEN kwargs["chat_items"]
                    ELSE << >>,
     metadata |-> IF "metadata" \in DOMAIN kwargs THEN kwargs["metadata"]
                  ELSE EmptyDict]

\* states a caller can build: the class accepts any value in a chat item
\* and in the metadata
ChatItemDicts ==
    { [k \in { "role", "content" } |->
          IF k = "role" THEN PyStr("user") ELSE c] :
      c \in { PyStr("a"), PyList(<< PyStr("a") >>), PyTuple(<< PyInt(1) >>) } }
MetadataDicts == { EmptyDict } \cup { [k \in { "key" } |-> x] : x \in PyValues }
SessionStates ==
    { [chat_items |-> c, metadata |-> m] :
      c \in SeqsUpTo(ChatItemDicts, MaxChatItems), m \in MetadataDicts }

IsJsonState(s) ==
    /\ \A i \in 1..Len(s.chat_items) :
          \A k \in DOMAIN s.chat_items[i] : IsJsonValue(s.chat_items[i][k])
    /\ \A k \in DOMAIN s.metadata : IsJsonValue(s.metadata[k])

\* restored = SerializableSessionState(**state.model_dump())
RoundTripState(s) ==
    /\ cop' = "state_round_trip"
    /\ cin' = s
    /\ cout' = [raised |-> FALSE, value |-> SerializableSessionState(model_dump(s))]
    /\ UNCHANGED notcodec

\* ---- serialization.py: chat context and session state
\* llm.ChatContext.empty() and ChatContext.from_dict(data): the items of the
\* dict become the history; an item without a type is rejected (raises)
ChatContextEmpty == [items |-> << >>]
WellFormedItem(it) == it.t = "dict" /\ "type" \in DOMAIN it.v
FromDict(data) ==
    LET items == data.v["items"].v
    IN IF \A i \in 1..Len(items) : WellFormedItem(items[i])
       THEN [raised |-> FALSE, value |-> [items |-> items]]
       ELSE [raised |-> TRUE, value |-> ChatContextEmpty]

\* a decoder that hands every dict to from_dict
deserialize_chat_context_NoGuard(data) ==
    IF data.t = "dict" /\ "items" \in DOMAIN data.v /\ data.v["items"].t = "list"
    THEN FromDict(data)
    ELSE [raised |-> TRUE, value |-> ChatContextEmpty]

\* deserialize_chat_context(data)
deserialize_chat_context(data) ==
    IF ~Truthy(data) \/ ~Truthy(DictGet(data, "items", PyNone))
    THEN [raised |-> FALSE, value |-> ChatContextEmpty]
    ELSE FromDict(data)

\* deserialize_session_state(data); chat_context is optional in the result
deserialize_session_state(data) ==
    LET version == DictGet(data, "version", PyStr("1.0"))
        chat_context_data == DictGet(data, "chat_context", Dict1("items", PyList(<< >>)))
        ctx == IF Truthy(chat_context_data)
               THEN deserialize_chat_context(chat_context_data)
               ELSE [raised |-> FALSE, value |-> ChatContextEmpty]
    IN [raised |-> ctx.raised,
        warned |-> version # PyStr("1.0"),
        value |-> IF ctx.raised THEN << >>
                  ELSE [chat_context |-> IF Truthy(chat_context_data)
                                         THEN Some(ctx.value) ELSE None,
                        function_calls |-> DictGet(data, "function_calls", PyList(<< >>)),
                        user_state |-> DictGet(data, "user_state", PyStr("listening")),
                        agent_state |-> DictGet(data, "agent_state", PyStr("idle"))]]

\* inputs: serialized chat contexts, whole or structurally empty
MessageItem == PyDict([k \in { "type", "role", "content" } |->
                  IF k = "type" THEN PyStr("message")
                  ELSE IF k = "role" THEN PyStr("user") ELSE PyList(<< PyStr("a") >>)])
BadItem == PyDict([k \in { "role" } |-> PyStr("user")])
ChatContextDicts ==
    { PyNone, PyDict(EmptyDict), Dict1("items", PyNone), Dict1("items", PyList(<< >>)),
      Dict1("other", PyInt(1)), Dict1("items", PyList(<< MessageItem >>)),
      Dict1("items", PyList(<< MessageItem, BadItem >>)) }

\* a dict from the (key, value) pairs of those keys whose choice is given
DictOf(choice) ==
    PyDict([k \in { k \in DOMAIN choice : IsSome(choice[k]) } |-> Get(choice[k])])

FunctionCallRecord == PyDict([k \in { "function_name" } |-> PyStr("f")])
SessionStateDicts ==
    { DictOf([k \in { "version", "chat_context", "function_calls", "user_state" } |->
                 IF k = "version" THEN v
                 ELSE IF k = "chat_context" THEN c
                 ELSE IF k = "function_calls" THEN f ELSE u]) :
      v \in { None, Some(PyStr("1.0")), Some(PyStr("2.0")) },
      c \in { None } \cup { Some(x) : x \in ChatContextDicts },
      f \in { None, Some(PyList(<< FunctionCallRecord >>)) },
      u \in { None, Some(PyStr("speaking")) } }

DecodeChatContext(data) ==
    /\ cop' = "deserialize_chat_context"
    /\ cin' = data
    /\ cout' = deserialize_chat_context(data)
    /\ UNCHANGED notcodec

DecodeSessionState(data) ==
    /\ cop' = "deserialize_session_state"
    /\ cin' = data
    /\ cout' = deserialize_session_state(data)
    /\ UNCHANGED notcodec

\* ---- serialization.py: function tool calls
\* A str whose characters matter (a JSON text, a JSON string) is
\* PyText(chars), chars a sequence of one-character or one-word tokens.
PyText(chars) == [t |-> "text", v |-> chars]
QUOTE == "\""
Digits == << "0", "1", "2", "3", "4", "5", "6", "7", "8", "9" >>

\* the JSON values of the texts below
JsonAtoms == { PyText(<< "a" >>), PyText(<< "5" >>), PyInt(5), PyNone }
JsonObjects ==
    { PyDict(EmptyDict) }
    \cup { Dict1("k", x) : x \in JsonAtoms \cup { Dict1("k", PyInt(5)) } }
JsonValues ==
    JsonAtoms \cup JsonObjects
    \cup { PyList(xs) : xs \in SeqsUpTo({ PyInt(5), PyText(<< "a" >>) }, MaxListLen) }

\* json.dumps(x): Python's separators ", " and ": "
RECURSIVE JsonDumps(_)
RECURSIVE DumpsElems(_)
RECURSIVE DumpsPairs(_, _)
DumpsElems(xs) ==
    IF xs = << >> THEN << >>
    ELSE JsonDumps(Head(xs))
         \o (IF Len(xs) > 1 THEN << ",", " " >> ELSE << >>)
         \o DumpsElems(Tail(xs))
DumpsPairs(f, keys) ==
    IF keys = {} THEN << >>
    ELSE LET k == CHOOSE k \in keys : TRUE
         IN << QUOTE, k, QUOTE, ":", " " >> \o JsonDumps(f[k])
            \o (IF keys # { k } THEN << ",", " " >> ELSE << >>)
            \o DumpsPairs(f, keys \ { k })
JsonDumps(x) ==
    IF x.t = "None" THEN << "null" >>
    ELSE IF x.t = "int" THEN << Digits[x.v + 1] >>
    ELSE IF x.t = "text" THEN << QUOTE >> \o x.v \o << QUOTE >>
    ELSE IF x.t = "list" THEN << "[" >> \o DumpsElems(x.v) \o << "]" >>
    ELSE << "{" >> \o DumpsPairs(x.v, DOMAIN x.v) \o << "}" >>

\* a text without its insignificant white space
RECURSIVE Compact(_)
Compact(text) ==
    IF text = << >> THEN << >>
    ELSE (IF Head(text) = " " THEN << >> ELSE << Head(text) >>) \o Compact(Tail(text))

\* json.loads(text): the value the text encodes (white space between tokens
\* is insignificant); raised for a text that encodes none
JsonLoads(text) ==
    LET vs == { x \in JsonValues : Compact(JsonDumps(x)) = Compact(text) }
    IN IF vs = {} THEN [raised |-> TRUE, value |-> PyNone]
       ELSE [raised |-> FALSE, value |-> CHOOSE x \in vs : TRUE]

\* serialize_function_tool_call(call)
serialize_function_tool_call(call) ==
    LET parsed == JsonLoads(call.arguments.v)
        arguments_obj ==
            IF call.arguments.t = "text"
            THEN (IF parsed.raised THEN Dict1("_raw", call.arguments) ELSE parsed.value)
            ELSE call.arguments
    IN PyDict([k \in { "call_id", "name", "arguments" } |->
                  IF k = "call_id" THEN call.call_id
                  ELSE IF k = "name" THEN call.name ELSE arguments_obj])

\* deserialize_function_tool_call(data); FunctionToolCall(name=None) is
\* rejected by the class (name: str)
deserialize_function_tool_call(data) ==
    LET n1 == DictGet(data, "name", PyNone)
        name == IF Truthy(n1) THEN n1 ELSE DictGet(data, "function_name", PyNone)
        args == DictGet(data, "arguments", PyDict(EmptyDict))
        arguments_str == IF args.t # "text" THEN PyText(JsonDumps(args)) ELSE args
    IN [raised |-> name.t # "str",
        value |-> [call_id |-> DictGet(data, "call_id", PyStr("")),
                   name |-> name,
                   arguments |-> arguments_str]]

\* inputs: tool calls whose arguments are a JSON text (as json.dumps writes
\* it, or compact), a text that is no JSON, or a mapping
ArgumentTexts ==
    { PyText(JsonDumps(x)) : x \in JsonValues }
    \cup { PyText(Compact(JsonDumps(x))) : x \in JsonObjects }
    \cup { PyText(<< >>), PyText(<< "n", "o" >>), PyText(<< "{" >>) }
FunctionToolCalls ==
    { [call_id |-> PyStr("call_1"), name |-> PyStr("f"), arguments |-> a] :
      a \in ArgumentTexts \cup JsonObjects }

\* inputs: serialized tool-call records, with the current and the legacy name
ToolCallRecords ==
    { DictOf([k \in { "name", "function_name", "call_id", "arguments" } |->
                 IF k = "name" THEN n
                 ELSE IF k = "function_name" THEN fn
                 ELSE IF k = "call_id" THEN c ELSE a]) :
      n \in { None, Some(PyStr("f")), Some(PyStr("")) },
      fn \in { None, Some(PyStr("g")) },
      c \in { None, Some(PyStr("call_1")) },
      a \in { None, Some(Dict1("k", PyInt(5))), Some(PyText(<< "5" >>)) } }

SerializeToolCall(call) ==
    /\ cop' = "serialize_function_tool_call"
    /\ cin' = call
    /\ cout' = [raised |-> FALSE, value |-> serialize_function_tool_call(call)]
    /\ UNCHANGED notcodec

DeserializeToolCall(data) ==
    /\ cop' = "deserialize_function_tool_call"
    /\ cin' = data
    /\ cout' = deserialize_function_tool_call(data)
    /\ UNCHANGED notcodec

\* restored = deserialize_function_tool_call(serialize_function_tool_call(call))
RoundTripToolCall(call) ==
    /\ cop' = "tool_call_round_trip"
    /\ cin' = call
    /\ cout' = deserialize_function_tool_call(serialize_function_tool_call(call))
    /\ UNCHANGED notcodec

NextCodec ==
    \/ \E s \in SessionStates : RoundTripState(s)
    \/ \E d \in ChatContextDicts : DecodeChatContext(d)
    \/ \E d \in SessionStateDicts : DecodeSessionState(d)
    \/ \E c \in FunctionToolCalls : SerializeToolCall(c)
    \/ \E d \in ToolCallRecords : DeserializeToolCall(d)
    \/ \E c \in FunctionToolCalls : RoundTripToolCall(c)

SpecCodec == InitLib /\ [][NextCodec]_vars



\* ======================================================= shim/context.py FakeRoom
\* Handlers are named by what they do when called: sync and async return,
\* raiser raises ValueError, canceller raises asyncio.CancelledError, once
\* unregisters itself with room.off(event, handler).
RoomHandlers == { "sync", "async", "raiser", "canceller", "once" }

\* list.remove(x): without the first occurrence of x
RECURSIVE ListRemove(_, _)
ListRemove(xs, x) ==
    IF xs = << >> THEN << >>
    ELSE IF Head(xs) = x THEN Tail(xs)
    ELSE << Head(xs) >> \o ListRemove(Tail(xs), x)

InList(xs, x) == \E i \in 1..Len(xs) : xs[i] = x

\* the two classes of fake room: the gateway path's FakeRoom and the turn
\* executor's TextOnlyRoom, which defines on and _register_handler alike
\* but no off and no _emit_event
RoomClasses == { "FakeRoom", "TextOnlyRoom" }
RoomEvents == { "data_received", "participant_connected" }
NoRoomRet == [op |-> "none"]
EmitIdle == [state |-> "idle", idx |-> 0, at_start |-> << >>, invoked |-> << >>,
             escaped |-> << >>]

\* a room is constructed: no handlers
NewRoom(cls) ==
    /\ emit.state # "running"
    /\ room_class' = cls
    /\ room_handlers' = << >>
    /\ other_handlers' = << >>
    /\ emit' = EmitIdle
    /\ room_ret' = NoRoomRet
    /\ UNCHANGED notroom

\* room.on(event, callback): _register_handler appends
RoomOn(h) ==
    /\ emit.state # "running"
    /\ Len(room_handlers) < MaxHandlers
    /\ room_handlers' = Append(room_handlers, h)
    /\ room_ret' = NoRoomRet
    /\ UNCHANGED << emit, room_class, other_handlers, notroom >>

\* room.on("participant_connected", callback)
RoomOnOther(h) ==
    /\ emit.state # "running"
    /\ Len(other_handlers) < MaxOtherHandlers
    /\ other_handlers' = Append(other_handlers, h)
    /\ room_ret' = NoRoomRet
    /\ UNCHANGED << room_handlers, emit, room_class, notroom >>

\* FakeRoom.off on the list of the event: the list is replaced by an empty
\* one when no callback is given (cb is None); else the first occurrence
\* of the callback, if there is one, is removed
FakeRoom_off(handlers, cb) ==
    IF IsNone(cb) THEN << >>
    ELSE IF InList(handlers, Get(cb)) THEN ListRemove(handlers, Get(cb))
    ELSE handlers

\* room.off(event, callback), callback registered or not, or None.  The
\* attribute lookup raises AttributeError on a TextOnlyRoom.  The record of
\* an emission that ended earlier is dropped.
RoomOff(event, cb) ==
    /\ emit.state # "running"
    /\ LET raises == room_class = "TextOnlyRoom"
       IN /\ room_handlers' = IF ~raises /\ event = "data_received"
                              THEN FakeRoom_off(room_handlers, cb) ELSE room_handlers
          /\ other_handlers' = IF ~raises /\ event = "participant_connected"
                               THEN FakeRoom_off(other_handlers, cb) ELSE other_handlers
          /\ room_ret' = [op |-> "off", event |-> event, callback |-> cb,
                          raised |-> raises, before |-> room_handlers,
                          before_other |-> other_handlers]
    /\ emit' = EmitIdle
    /\ UNCHANGED << room_class, notroom >>

\* _emit_event(event, ...): the for loop starts on the list of the event
EmitStart ==
    /\ emit.state # "running"
    /\ room_class = "FakeRoom"
    /\ emit' = [state |-> "running", idx |-> 0, at_start |-> room_handlers,
                invoked |-> << >>, escaped |-> None]
    /\ room_ret' = NoRoomRet
    /\ UNCHANGED << room_handlers, room_class, other_handlers, notroom >>

\* one round of the loop: the list iterator yields the element at its index
\* (of the list as it is now) and the handler is called, awaited when it is
\* a coroutine function; `except Exception` logs what it raises
EmitStep ==
    /\ emit.state = "running"
    /\ emit.idx < Len(room_handlers)
    /\ LET h == room_handlers[emit.idx + 1]
       IN /\ room_handlers' = IF h = "once" THEN ListRemove(room_handlers, h)
                              ELSE room_handlers
          /\ emit' = [emit EXCEPT !.idx = @ + 1,
                                  !.invoked = Append(@, h),
                                  !.state = IF h = "canceller" THEN "escaped" ELSE @,
                                  !.escaped = IF h = "canceller" THEN Some(ExcCancelled)
                                              ELSE @]
    /\ UNCHANGED << room_class, other_handlers, room_ret, notroom >>

\* the iterator is exhausted: _emit_event returns
EmitEnd ==
    /\ emit.state = "running"
    /\ emit.idx >= Len(room_handlers)
    /\ emit' = [emit EXCEPT !.state = "finished"]
    /\ UNCHANGED << room_handlers, room_class, other_handlers, room_ret, notroom >>

NextRoom ==
    \/ \E cls \in RoomClasses : NewRoom(cls)
    \/ \E h \in RoomHandlers : RoomOn(h)
    \/ \E h \in { "sync" } : RoomOnOther(h)
    \/ \E e \in RoomEvents, h \in RoomHandlers : RoomOff(e, Some(h))
    \/ \E e \in RoomEvents : RoomOff(e, None)
    \/ EmitStart
    \/ EmitStep
    \/ EmitEnd

SpecRoom == InitLib /\ [][NextRoom]_vars

\* ============================================ shim/auto_patch.py, shim/patch.py
\* How an invocation of a patch routine goes once it is past the flag:
\*   ok            the framework imports and every wrapper is installed
\*   no_property   Agent.__init__ is wrapped, no chat_ctx property is found
\*   import_error  the framework is missing (ImportError)
\*   error_before  an exception before anything is wrapped
\*   error_between an exception after Agent.__init__ was wrapped
AutoPatchOutcomes == { "ok", "no_property", "import_error", "error_before",
                       "error_between" }
SdkPatchOutcomes == { "ok", "import_error", "error_before" }

\* a flag that is set only when the patch succeeded
FlagAfterAttempt_SuccessOnly(outcome) == outcome = "ok"

\* _PATCHING_APPLIED after the try statement: True at the end of the try
\* body, in `except ImportError` and in `except Exception`
FlagAfterAttempt(outcome) == TRUE

\* patch_livekit_auto()
PatchLivekitAuto(outcome) ==
    /\ wrappers.init < MaxWraps
    /\ IF PATCHING_APPLIED.auto
       THEN UNCHANGED << PATCHING_APPLIED, wrappers, patched_first >>
       ELSE /\ wrappers' =
                  [wrappers EXCEPT
                      !.init = IF outcome \in { "ok", "no_property", "error_between" }
                               THEN @ + 1 ELSE @,
                      !.chat_ctx = IF outcome = "ok" THEN @ + 1 ELSE @]
            /\ PATCHING_APPLIED' =
                  [PATCHING_APPLIED EXCEPT !.auto = FlagAfterAttempt(outcome)]
            /\ patched_first' =
                  IF IsNone(patched_first.auto)
                  THEN [patched_first EXCEPT
                           !.auto = Some(<< wrappers'.init, wrappers'.chat_ctx >>)]
                  ELSE patched_first
    /\ shim_ret' = [op |-> "patch_livekit_auto", agent |-> 0,
                    value |-> IF PATCHING_APPLIED.auto THEN "skipped" ELSE outcome,
                    before |-> << >>]
    /\ UNCHANGED << AGENT_STATES, agent_objs, cleared, notshim >>

\* patch_livekit()
PatchLivekit(outcome) ==
    /\ wrappers.session < MaxWraps
    /\ IF PATCHING_APPLIED.sdk
       THEN UNCHANGED << PATCHING_APPLIED, wrappers, patched_first >>
       ELSE /\ wrappers' = [wrappers EXCEPT
                              !.session = IF outcome = "ok" THEN @ + 1 ELSE @]
            /\ PATCHING_APPLIED' =
                  [PATCHING_APPLIED EXCEPT !.sdk = FlagAfterAttempt(outcome)]
            /\ patched_first' =
                  IF IsNone(patched_first.sdk)
                  THEN [patched_first EXCEPT !.sdk = Some(<< wrappers'.session >>)]
                  ELSE patched_first
    /\ shim_ret' = [op |-> "patch_livekit", agent |-> 0,
                    value |-> IF PATCHING_APPLIED.sdk THEN "skipped" ELSE outcome,
                    before |-> << >>]
    /\ UNCHANGED << AGENT_STATES, agent_objs, cleared, notshim >>

\* ---- the captured-state map
\* shim_ret after an operation whose return value no caller reads
NoReturn == [op |-> "other", agent |-> 0, value |-> "", before |-> << >>]

\* the record get_agent_state returns for an id without an entry
DefaultAgentState ==
    [chat_context |-> None, function_calls |-> << >>, user_state |-> "listening",
     agent_state |-> "idle"]

AgentIds == 1..MaxAgents

\* a map without / with the entry of one key
MapWithout(m, a) == [b \in DOMAIN m \ { a } |-> m[b]]
MapWith(m, a, x) == [b \in DOMAIN m \cup { a } |-> IF b = a THEN x ELSE m[b]]

\* a cleanup that deletes nothing
clear_agent_state_Keeps(states, agent_id) == states

\* clear_agent_state(agent): the entry of id(agent) is deleted when present
clear_agent_state(states, agent_id) ==
    IF agent_id \in DOMAIN states THEN MapWithout(states, agent_id) ELSE states

\* get_agent_state(agent)
get_agent_state(states, agent_id) ==
    IF agent_id \in DOMAIN states THEN states[agent_id] ELSE DefaultAgentState

\* _auto_capture_state(agent): the entry of id(agent) is (over)written
\* with the agent's serialized history and its function-call log
_auto_capture_state(states, agent_id, obj) ==
    MapWith(states, agent_id,
            [chat_context |-> Some([items |-> ToDictItems(obj.chat_ctx)]),
             function_calls |-> obj.function_calls,
             user_state |-> "listening", agent_state |-> "idle"])

\* agent = agent_class(): a new object; its id is one no live object has.
\* The callers (the HTTP app's startup, the CLI's run command) have called
\* patch_livekit_auto before any agent is created.
NewAgent == [chat_ctx |-> << >>, function_calls |-> << >>]
CreateAgent(a) ==
    /\ PATCHING_APPLIED.auto
    /\ a \notin DOMAIN agent_objs
    /\ agent_objs' = MapWith(agent_objs, a,
                              [chat_ctx |-> NewAgent.chat_ctx,
                               function_calls |-> NewAgent.function_calls,
                               read |-> FALSE])
    /\ shim_ret' = NoReturn
    /\ UNCHANGED << PATCHING_APPLIED, wrappers, AGENT_STATES, patched_first, cleared,
                    notshim >>

\* the message that follows a history: the user's, then the assistant's
NextMessage(ctx) ==
    IF Len(ctx) % 2 = 0 THEN [role |-> "user", content |-> TxtHi]
    ELSE [role |-> "assistant", content |-> TxtOk]

\* agent.chat_ctx is read: the wrapped getter captures the state
AccessChatCtx(a) ==
    /\ a \in DOMAIN agent_objs
    /\ wrappers.chat_ctx >= 1
    /\ AGENT_STATES' = _auto_capture_state(AGENT_STATES, a, agent_objs[a])
    /\ agent_objs' = [agent_objs EXCEPT ![a].read = TRUE]
    /\ cleared' = cleared \ { a }
    /\ shim_ret' = NoReturn
    /\ UNCHANGED << PATCHING_APPLIED, wrappers, patched_first, notshim >>

\* get_agent_state(agent), the agent alive or its identity stale
GetAgentState(a) ==
    /\ shim_ret' = [op |-> "get_agent_state", agent |-> a,
                    value |-> get_agent_state(AGENT_STATES, a), before |-> << >>]
    /\ UNCHANGED << PATCHING_APPLIED, wrappers, AGENT_STATES, agent_objs,
                    patched_first, cleared, notshim >>

\* clear_agent_state(agent)
ClearAgentState(a) ==
    /\ AGENT_STATES' = clear_agent_state(AGENT_STATES, a)
    /\ cleared' = cleared \cup { a }
    /\ shim_ret' = [op |-> "clear_agent_state", agent |-> a, value |-> "",
                    before |-> AGENT_STATES]
    /\ UNCHANGED << PATCHING_APPLIED, wrappers, agent_objs, patched_first, notshim >>

\* the last reference to the agent goes: the object is freed, its id is free
DropAgent(a) ==
    /\ a \in DOMAIN agent_objs
    /\ agent_objs' = MapWithout(agent_objs, a)
    /\ shim_ret' = NoReturn
    /\ UNCHANGED << PATCHING_APPLIED, wrappers, AGENT_STATES, patched_first, cleared,
                    notshim >>

\* ---- the callers of the monkey-patch path
\* the history of the agent of an /execute request when the handler ends
HttpOutcomes == { "not_loaded", "creation_failed", "no_chat_ctx", "llm_failed",
                  "success" }
HttpHistory(outcome) ==
    LET user == << NextMessage(<< >>) >>
    IN IF outcome = "no_chat_ctx" THEN << >>
       ELSE IF outcome = "llm_failed" THEN user
       ELSE Append(user, NextMessage(user))

\* http_server.execute(req), the whole handler.  The agent is an object of
\* the request: every read of agent.chat_ctx (hasattr at line 121, the
\* copies, the read at 168) captures its state when the property is wrapped;
\* get_agent_state is read for the response, and the object is freed when
\* the handler returns.
HttpExecute(a, outcome) ==
    /\ PATCHING_APPLIED.auto
    /\ a \notin DOMAIN agent_objs
    /\ LET created == outcome \notin { "not_loaded", "creation_failed" }
           obj == [NewAgent EXCEPT !.chat_ctx = HttpHistory(outcome)]
           captured == created /\ wrappers.chat_ctx >= 1
       IN /\ AGENT_STATES' = IF captured THEN _auto_capture_state(AGENT_STATES, a, obj)
                             ELSE AGENT_STATES
          /\ cleared' = IF captured THEN cleared \ { a } ELSE cleared
          /\ shim_ret' = [op |-> "http_execute", agent |-> IF created THEN a ELSE 0,
                          value |-> IF outcome = "success" THEN "success" ELSE "error",
                          before |-> << >>]
    /\ UNCHANGED << PATCHING_APPLIED, wrappers, agent_objs, patched_first, notshim >>

\* cli auto_entrypoint(ctx), the whole function: the agent is created, its
\* on_enter and on_exit run (touched: they read agent.chat_ctx; raises:
\* where an exception ends the entrypoint), then get_agent_state and
\* clear_agent_state; the object is freed when the function ends.
CliRaises == { "none", "on_enter", "on_exit" }
CliAutoEntrypoint(a, touched, raises) ==
    /\ PATCHING_APPLIED.auto
    /\ a \notin DOMAIN agent_objs
    /\ LET captured == touched /\ wrappers.chat_ctx >= 1
           after_run == IF captured THEN _auto_capture_state(AGENT_STATES, a, NewAgent)
                        ELSE AGENT_STATES
       IN /\ AGENT_STATES' = IF raises = "none" THEN clear_agent_state(after_run, a)
                             ELSE after_run
          /\ cleared' = IF raises = "none" THEN cleared \cup { a }
                        ELSE IF captured THEN cleared \ { a } ELSE cleared
          /\ shim_ret' = [op |-> "auto_entrypoint", agent |-> a, value |-> raises,
                          before |-> << >>]
    /\ UNCHANGED << PATCHING_APPLIED, wrappers, agent_objs, patched_first, notshim >>

NextShim ==
    \/ \E o \in AutoPatchOutcomes : PatchLivekitAuto(o)
    \/ \E o \in SdkPatchOutcomes : PatchLivekit(o)
    \/ \E a \in AgentIds : CreateAgent(a)
    \/ \E a \in AgentIds : AccessChatCtx(a)
    \/ \E a \in AgentIds : GetAgentState(a)
    \/ \E a \in AgentIds : ClearAgentState(a)
    \/ \E a \in AgentIds : DropAgent(a)
    \/ \E a \in AgentIds, o \in HttpOutcomes : HttpExecute(a, o)
    \/ \E a \in AgentIds, t \in BOOLEAN, r \in CliRaises : CliAutoEntrypoint(a, t, r)

SpecShim == InitLib /\ [][NextShim]_vars



\* ===================================== concurrent turns (livetxt/worker.py)
\* Several execute_job calls run as tasks of one event loop; they share the
\* class attribute AgentSession.start.  A turn's patched_start closure is
\* named by the turn; the value of AgentSession.start is the list of the
\* closures stacked on the original method, outermost first (a closure's
\* original_start is what the attribute held when its turn installed it).
\* Each turn's entrypoint starts at most one session, named by the turn.
ConcTurns == 1..MaxConcTurns
ConcOutcomes == { "success", "timeout", "error" }
ConcInput(t) == IF t = 1 THEN TxtHi ELSE TxtE

\* the locals of execute_job after lines 272-300 (sources is history: the
\* session each buffered text came from)
NewJob(saved) ==
    [phase |-> "running", original_start |-> saved, output_buffer |-> << >>,
     captured_session |-> None, captured_agent |-> None, result |-> None,
     sources |-> << >>]

\* execute_job up to its first suspension: the hook is installed on top of
\* whatever AgentSession.start holds
ConcCall(t) ==
    /\ t \notin DOMAIN jobs
    /\ jobs' = MapWith(jobs, t, NewJob(class_start))
    /\ class_start' = << t >> \o class_start
    /\ UNCHANGED << sessions, notconc >>

\* session.start(...) runs the closures from the outermost inwards: each
\* records the session (and the agent when one is given) in its own turn's
\* locals, subscribes its on_conversation_item and calls its original_start.
RECURSIVE patched_start(_, _, _, _)
patched_start(chain, s, given, js) ==
    IF chain = << >> THEN js
    ELSE patched_start(Tail(chain), s, given,
             [js EXCEPT ![Head(chain)].captured_session = Some(s),
                        ![Head(chain)].captured_agent = IF given THEN Some(s) ELSE @])

\* the entrypoint of turn t awaits session.start(agent=..., room=ctx.room)
ConcStartSession(t, given) ==
    /\ t \in DOMAIN jobs
    /\ jobs[t].phase = "running"
    /\ t \notin DOMAIN sessions
    /\ jobs' = patched_start(class_start, t, given, jobs)
    /\ sessions' = MapWith(sessions, t, [handlers |-> class_start, chat_ctx |-> << >>])
    /\ UNCHANGED << class_start, notconc >>

\* conversation_item_added: every subscribed on_conversation_item appends an
\* assistant item's text to the buffer it closes over
RECURSIVE on_conversation_item(_, _, _, _)
on_conversation_item(handlers, s, item, js) ==
    IF handlers = << >> THEN js
    ELSE on_conversation_item(Tail(handlers), s, item,
             IF item.role = "assistant"
             THEN [js EXCEPT ![Head(handlers)].output_buffer = Append(@, item.content),
                             ![Head(handlers)].sources = Append(@, s)]
             ELSE js)

\* the session of turn s adds an item to its agent's history and emits the event
ConcSessionItem(s, item) ==
    /\ s \in DOMAIN sessions
    /\ jobs[s].phase = "running"
    /\ Len(sessions[s].chat_ctx) < MaxConcItems
    /\ sessions' = [sessions EXCEPT ![s].chat_ctx = Append(@, item)]
    /\ jobs' = on_conversation_item(sessions[s].handlers, s, item, jobs)
    /\ UNCHANGED << class_start, notconc >>

\* turn t ends: lines 349-419 on success, an except clause otherwise, and
\* the finally clause, whose cleanup() stores the turn's original_start
ConcReturn(t, outcome) ==
    /\ t \in DOMAIN jobs
    /\ jobs[t].phase = "running"
    /\ LET j == jobs[t]
           a == j.captured_agent
           ctx == IF IsSome(a) THEN sessions[Get(a)].chat_ctx ELSE << >>
           scanned == j.output_buffer = << >> /\ IsSome(a)
           buf == IF scanned THEN AssistantContents(ctx) ELSE j.output_buffer
           src == IF scanned THEN [i \in 1..Len(buf) |-> Get(a)] ELSE j.sources
           response_text == ResponseText(buf)
           updated == IF IsSome(a) THEN from_chat_context(ctx)
                      ELSE [chat_items |-> << >>,
                            metadata |-> WithLastTurn(MetaEmpty, ConcInput(t),
                                                      response_text, 0)]
       IN jobs' = [jobs EXCEPT ![t] =
              IF outcome = "success"
              THEN [j EXCEPT !.phase = "returned", !.output_buffer = buf,
                             !.sources = src,
                             !.result = Some(JobResult(t, "success", response_text,
                                                       Some(updated), None, 0))]
              ELSE [j EXCEPT !.phase = "returned",
                             !.result = Some(JobResult(t, outcome, None, None,
                                 Some(IF outcome = "timeout" THEN TimeoutErrorText(None)
                                      ELSE ErrorDetails(ExcValue)), 0))]]
    /\ class_start' = jobs[t].original_start
    /\ UNCHANGED << sessions, notconc >>

NextConc ==
    \/ \E t \in ConcTurns : ConcCall(t)
    \/ \E t \in ConcTurns, g \in BOOLEAN : ConcStartSession(t, g)
    \/ \E s \in ConcTurns, i \in SessionItems : ConcSessionItem(s, i)
    \/ \E t \in ConcTurns, o \in ConcOutcomes : ConcReturn(t, o)

SpecConc == InitLib /\ [][NextConc]_vars



\* ======================= tool wrappers (livetxt/shim/auto_patch.py 162-264)
\* The agent's tool methods are numbered in the order dir(agent) lists them.
\* Every wrapped_tool that one _wrap_function_tools call defines closes over
\* the same local variable original_func of that call; a wrapper reads the
\* variable when it is invoked.
ToolIds == 1..MaxTools

\* the for loop of lines 165-213 over the tool attributes: each iteration
\* assigns original_func and replaces the attribute by a new wrapped_tool;
\* the result is the value of original_func when the loop has ended
RECURSIVE _wrap_function_tools(_, _)
_wrap_function_tools(names, original_func) ==
    IF names = << >> THEN original_func
    ELSE _wrap_function_tools(Tail(names), Some(Head(names)))

\* an agent object with n tool methods is created
NewToolAgent(n) ==
    /\ tool_agent.tools = 0
    /\ tool_agent' = [tools |-> n, cells |-> << >>]
    /\ call_log' = << >>
    /\ tool_ret' = [op |-> "new"]
    /\ UNCHANGED nottools

\* install_agent_hooks(agent); a repeated call wraps the wrappers
InstallAgentHooks ==
    /\ tool_agent.tools > 0
    /\ Len(tool_agent.cells) < MaxWraps
    /\ LET cell == _wrap_function_tools([i \in 1..tool_agent.tools |-> i], None)
       IN tool_agent' = [tool_agent EXCEPT !.cells = Append(@, Get(cell))]
    /\ tool_ret' = [op |-> "install"]
    /\ UNCHANGED << call_log, nottools >>

\* how the tool is called, and what its original method does
ToolArguments == { [args |-> << >>, kwargs |-> << "city" >>],
                   [args |-> << "city" >>, kwargs |-> << >>] }
ToolOutcomes == { "returns", "raises", "cancelled" }

\* the record one wrapped_tool appends (lines 189-194 and 202-207)
ToolRecord(func_name, kwargs, outcome) ==
    [function_name |-> func_name, arguments |-> kwargs,
     result |-> IF outcome = "returns" THEN Some("result") ELSE None,
     error |-> IF outcome = "raises" THEN Some("str(e)") ELSE None]

\* await agent.T(*args, **kwargs): each layer calls the function its
\* original_func names at that moment, so the method that runs is the one
\* the innermost layer's variable names; each layer appends its record when
\* the call below it has returned or raised an Exception (a BaseException
\* passes through unrecorded), and re-raises
InvokeTool(T, a, outcome) ==
    /\ T \in 1..tool_agent.tools
    /\ Len(call_log) + Len(tool_agent.cells) <= MaxToolCalls
    /\ LET layers == Len(tool_agent.cells)
           ran == IF layers = 0 THEN T ELSE tool_agent.cells[1]
           appended == IF outcome = "cancelled" THEN << >>
                       ELSE [k \in 1..layers |-> ToolRecord(ran, a.kwargs, outcome)]
       IN /\ call_log' = call_log \o appended
          /\ tool_ret' = [op |-> "invoke", tool |-> T, given |-> a, ran |-> ran,
                          outcome |-> outcome, before |-> call_log,
                          raised |-> outcome # "returns"]
    /\ UNCHANGED << tool_agent, nottools >>

NextTools ==
    \/ \E n \in ToolIds : NewToolAgent(n)
    \/ InstallAgentHooks
    \/ \E T \in ToolIds, a \in ToolArguments, o \in ToolOutcomes : InvokeTool(T, a, o)

SpecTools == InitLib /\ [][NextTools]_vars


\* ================== HTTP execute path (livetxt/http_server.py, auto_patch.py)
HttpReqIds == 1..MaxHttpReqs
HttpTexts == << "m1", "m2", "m3" >>

\* one message of serialized history and one tool-call record; the text
\* and the tool name tell whose they are
HttpItem(r) ==
    PyDict([k \in { "type", "role", "content" } |->
               IF k = "type" THEN PyStr("message")
               ELSE IF k = "role" THEN PyStr("user")
               ELSE PyList(<< PyStr(HttpTexts[r]) >>)])
HttpCall(r) == Dict1("function_name", PyStr(HttpTexts[r]))

\* req.agent_state of request r: absent, an AgentStateModel of defaults, or
\* one that carries a history and a tool-call log
HttpAgentStates(r) ==
    { PyNone,
      [chat_context |-> PyNone, function_calls |-> PyList(<< >>),
       user_state |-> PyStr("listening"), agent_state |-> PyStr("idle")],
      [chat_context |-> Dict1("items", PyList(<< HttpItem(r) >>)),
       function_calls |-> PyList(<< HttpCall(r) >>),
       user_state |-> PyStr("listening"), agent_state |-> PyStr("idle")] }

\* req.agent_state.model_dump() if req.agent_state else None
HttpPrevState(agent_state) ==
    IF "t" \in DOMAIN agent_state THEN PyNone
    ELSE PyDict([k \in DOMAIN agent_state |-> agent_state[k]])

\* set_execution_context(context)
set_execution_context(context) == context

\* How the agent class defines update_chat_ctx: the framework's coroutine
\* function, a plain method, or not at all.  Calling a coroutine function
\* without awaiting the result runs none of its body.
UpdateKinds == { "async", "plain", "absent" }

\* _auto_restore_state(agent) under the context ctx
_auto_restore_state(agent, ctx, kind) ==
    LET state == IF "previous_state" \in DOMAIN ctx THEN ctx["previous_state"]
                 ELSE PyNone
    IN IF ~Truthy(state) THEN agent
       ELSE LET cc == DictGet(state, "chat_context", PyNone)
                d == deserialize_chat_context(cc)
                with_ctx ==
                    IF "chat_context" \in DOMAIN state.v /\ Truthy(cc)
                       /\ ~d.raised /\ kind # "async"
                    THEN [agent EXCEPT !.chat_ctx = d.value.items]
                    ELSE agent
            IN IF "function_calls" \in DOMAIN state.v
               THEN [with_ctx EXCEPT !.function_calls = state.v["function_calls"].v]
               ELSE with_ctx

\* wrapped_init(self): the original __init__, an empty tool-call log, then
\* the restore
wrapped_init(ctx, kind) == _auto_restore_state(NewAgent, ctx, kind)

HttpNoRequest == [pc |-> "idle"]
HttpReq(r) == IF r \in DOMAIN http_reqs THEN http_reqs[r] ELSE HttpNoRequest

\* execute(req) up to its first suspension (lines 95-132): the context is
\* set, the agent is constructed (created: its __init__ did not raise), the
\* user's message is added with `await agent.update_chat_ctx(...)`, which
\* raises where the method is absent or what it returns is not awaitable
HttpBegin(r, agent_state, kind, created) ==
    /\ HttpReq(r).pc = "idle"
    /\ LET prev == HttpPrevState(agent_state)
           ctx == set_execution_context(
                      [k \in { "previous_state", "user_id" } |->
                          IF k = "previous_state" THEN prev ELSE PyInt(r)])
           agent == wrapped_init(ctx, kind)
           with_user == IF kind = "absent" THEN agent
                        ELSE [agent EXCEPT !.chat_ctx = Append(@, HttpItem(3))]
       IN /\ CURRENT_CONTEXT' = ctx
          /\ http_reqs' =
                MapWith(http_reqs, r,
                    IF ~created
                    THEN [pc |-> "done", prev |-> prev, created |-> FALSE,
                          at_init |-> NewAgent, agent |-> NewAgent,
                          status |-> "error"]
                    ELSE [pc |-> IF kind = "async" THEN "llm" ELSE "done",
                          prev |-> prev, created |-> TRUE, at_init |-> agent,
                          agent |-> with_user,
                          status |-> IF kind = "async" THEN "running" ELSE "error"])
    /\ UNCHANGED nothttp

\* the rest of execute(req) (lines 135-189): the LLM's reply is streamed,
\* which suspends the handler; the reply is added to the history
HttpReply(r, ok) ==
    /\ HttpReq(r).pc = "llm"
    /\ http_reqs' =
          [http_reqs EXCEPT
              ![r].pc = "done",
              ![r].status = IF ok THEN "success" ELSE "error",
              ![r].agent.chat_ctx = IF ok THEN Append(@, HttpItem(3)) ELSE @]
    /\ UNCHANGED << CURRENT_CONTEXT, nothttp >>

\* the response is sent; the next request of this caller may arrive
HttpDone(r) ==
    /\ HttpReq(r).pc = "done"
    /\ http_reqs' = MapWithout(http_reqs, r)
    /\ UNCHANGED << CURRENT_CONTEXT, nothttp >>

NextHttp ==
    \/ \E r \in HttpReqIds, k \in UpdateKinds, c \in BOOLEAN :
          \E s \in HttpAgentStates(r) : HttpBegin(r, s, k, c)
    \/ \E r \in HttpReqIds, ok \in BOOLEAN : HttpReply(r, ok)
    \/ \E r \in HttpReqIds : HttpDone(r)

SpecHttp == InitLib /\ [][NextHttp]_vars

\* ============ gateway worker (livetxt/runtime.py, client.py, shim/context.py)
\* An action is what one task runs between two suspension points of the
\* event loop.
GwSessions == 1..MaxGwSessions

\* what the gateway sends: the welcome first, then message events (with
\* every field, or with one of them missing or empty) and heartbeat
\* acknowledgements
GwFrame(event, session, from, message) ==
    [event |-> event, session |-> session, from |-> from, message |-> message]
GwWelcomes == { GwFrame(e, 0, FALSE, FALSE) : e \in { "connected", "error" } }
GwEvents ==
    { GwFrame("message", s, TRUE, TRUE) : s \in GwSessions }
    \cup { GwFrame("message", 0, TRUE, TRUE), GwFrame("message", 1, FALSE, TRUE),
           GwFrame("message", 1, TRUE, FALSE), GwFrame("heartbeat_ack", 0, FALSE, FALSE) }

\* a registration that registers nothing
on_message_Ignores(old, handler) == old

\* LiveTxtClient.on_message(handler)
on_message(old, handler) == Some(handler)

\* the registry once the entrypoint of a session is over, if cleaned up
\* only when the entrypoint returned
AfterEntrypoint_ReturnOnly(active, session_id, outcome) ==
    IF outcome = "return" THEN MapWithout(active, session_id) ELSE active

\* _handle_new_session once `await self.entrypoint(ctx)` is over: the
\* finally clause deletes the session, however the entrypoint ended
AfterEntrypoint(active, session_id, outcome) ==
    IF session_id \in DOMAIN active THEN MapWithout(active, session_id) ELSE active

\* LiveTxtWorker.start up to `await websockets.connect(...)` in connect
GwStart(ok) ==
    /\ gw_client.pc = "init"
    /\ gw_client' = [gw_client EXCEPT !.pc = IF ok THEN "welcome" ELSE "failed"]
    /\ UNCHANGED << gw_inbox, gw_active, gw_rooms, notgw >>

\* the gateway sends a frame, at most MaxGwInbox of them ahead of the
\* client; it is marked (history) with whether the entrypoint of its
\* session was running when it was sent
GwSend(frame) ==
    /\ gw_client.pc \in { "welcome", "serving" }
    /\ gw_client.sent < MaxGwFrames
    /\ Len(gw_inbox) < MaxGwInbox
    /\ IF gw_client.sent = 0 THEN frame \in GwWelcomes ELSE frame \in GwEvents
    /\ gw_inbox' = Append(gw_inbox,
                          [frame |-> frame,
                           during |-> \E i \in DOMAIN gw_rooms :
                                         /\ gw_rooms[i].session = frame.session
                                         /\ gw_rooms[i].ep = "running"])
    /\ gw_client' = [gw_client EXCEPT !.sent = @ + 1]
    /\ UNCHANGED << gw_active, gw_rooms, notgw >>

\* connect from `welcome = await self.ws.recv()` on, then back in start:
\* the ready event is sent, the message-loop task is created (it has not
\* run yet), connect returns, start registers the handler and sleeps
GwWelcome ==
    /\ gw_client.pc = "welcome"
    /\ gw_inbox # << >>
    /\ gw_inbox' = Tail(gw_inbox)
    /\ gw_client' =
          [gw_client EXCEPT
              !.pc = "serving",
              !.loop = IF Head(gw_inbox).frame.event = "connected" THEN "waiting"
                       ELSE "none",
              !.handler = on_message(@, "_handle_message")]
    /\ UNCHANGED << gw_active, gw_rooms, notgw >>

\* FakeJobContext(session_id, ..., initial_message): a room without
\* handlers whose entrypoint is about to run
GwNewRoom(session_id, during) ==
    [session |-> session_id, initial |-> TRUE, ep |-> "running", steps |-> 0,
     pending |-> 0, events |-> << >>, during |-> during]

\* the contexts that are still referenced: by a running entrypoint or by a
\* pending injection task
GwLive(rooms) ==
    LET live == { i \in DOMAIN rooms : rooms[i].ep = "running" \/ rooms[i].pending > 0 }
    IN [i \in live |-> rooms[i]]

\* one round of _message_loop: the next frame is read; a message event goes
\* to the handler, _handle_message, which is awaited: a frame with a field
\* missing is logged; one of a session in the registry is emitted in its
\* room; any other starts _handle_new_session, and the loop stays in it
\* until the entrypoint is over
GwLoopRead ==
    /\ gw_client.loop = "waiting"
    /\ gw_inbox # << >>
    /\ gw_inbox' = Tail(gw_inbox)
    /\ LET f == Head(gw_inbox).frame
           invalid == f.session = 0 \/ ~f.from \/ ~f.message
           new == Min({ i \in 1..MaxGwFrames : i \notin DOMAIN gw_rooms })
       IN IF f.event # "message"
          THEN UNCHANGED << gw_client, gw_active, gw_rooms >>
          ELSE IF IsNone(gw_client.handler)
          THEN /\ gw_client' = [gw_client EXCEPT !.unhandled = @ + 1]
               /\ UNCHANGED << gw_active, gw_rooms >>
          ELSE IF invalid
          THEN /\ gw_client' = [gw_client EXCEPT !.last_read = "invalid"]
               /\ UNCHANGED << gw_active, gw_rooms >>
          ELSE IF f.session \in DOMAIN gw_active
          THEN /\ gw_rooms' = [gw_rooms EXCEPT ![gw_active[f.session]].events =
                                  Append(@, "message")]
               /\ gw_client' = [gw_client EXCEPT !.last_read = "existing"]
               /\ UNCHANGED gw_active
          ELSE /\ gw_rooms' = MapWith(gw_rooms, new,
                                      GwNewRoom(f.session, Head(gw_inbox).during))
               /\ gw_active' = MapWith(gw_active, f.session, new)
               /\ gw_client' = [gw_client EXCEPT !.loop = "in_handler",
                                                 !.room = new,
                                                 !.last_read = "new"]
    /\ UNCHANGED notgw

\* FakeRoom.connect(): participant_connected is emitted to the handlers
\* registered, then a task for _inject_initial_message is created when
\* there is an initial message
FakeRoom_connect(room) ==
    [room EXCEPT !.events = Append(@, "participant_connected"),
                 !.pending = IF room.initial THEN @ + 1 ELSE @]

\* the entrypoint calls `await ctx.connect()`
GwEpConnect ==
    /\ gw_client.loop = "in_handler"
    /\ gw_rooms[gw_client.room].steps < MaxGwSteps
    /\ gw_rooms' = [gw_rooms EXCEPT
                       ![gw_client.room] =
                           [FakeRoom_connect(@) EXCEPT !.steps = @ + 1]]
    /\ UNCHANGED << gw_client, gw_inbox, gw_active, notgw >>

\* _inject_initial_message of room i after its sleep of 0.5 s: data_received
\* is emitted with the initial message
GwInject(i) ==
    /\ i \in DOMAIN gw_rooms
    /\ gw_rooms[i].pending > 0
    /\ gw_rooms' = GwLive([gw_rooms EXCEPT
                              ![i].pending = @ - 1,
                              ![i].events = Append(@, "initial_message")])
    /\ gw_client' = [gw_client EXCEPT
                        !.reinjected = @ \/ InList(gw_rooms[i].events,
                                                   "initial_message")]
    /\ UNCHANGED << gw_inbox, gw_active, notgw >>

\* the entrypoint is over: it returned, raised an Exception (logged) or a
\* BaseException such as CancelledError, which ends the message loop
GwEpOutcomes == { "return", "raise", "base" }
GwEpEnd(outcome) ==
    /\ gw_client.loop = "in_handler"
    /\ gw_rooms' = GwLive([gw_rooms EXCEPT ![gw_client.room].ep = "over"])
    /\ gw_active' = AfterEntrypoint(gw_active, gw_rooms[gw_client.room].session,
                                    outcome)
    /\ gw_client' = [gw_client EXCEPT
                        !.loop = IF outcome = "base" THEN "ended" ELSE "waiting",
                        !.room = 0,
                        !.last_end = outcome]
    /\ UNCHANGED << gw_inbox, notgw >>

NextGateway ==
    \/ \E ok \in BOOLEAN : GwStart(ok)
    \/ \E f \in GwWelcomes \cup GwEvents : GwSend(f)
    \/ GwWelcome
    \/ GwLoopRead
    \/ GwEpConnect
    \/ \E i \in 1..MaxGwFrames : GwInject(i)
    \/ \E o \in GwEpOutcomes : GwEpEnd(o)

SpecGateway == InitLib /\ [][NextGateway]_vars

\* ======================= session wrapper (livetxt/session_wrapper.py)
\* Lists are objects: a variable holds a reference to one, and an append
\* through one reference shows through every other.
WrapNames == { "get_weather", "book" }

\* the caller adds a record to the list of the state it keeps
WrapCallerAppend(name) ==
    /\ IsNone(wrap_passed)
    /\ Len(wrap_heap[2]) < MaxWrapCalls
    /\ wrap_heap' = [wrap_heap EXCEPT ![2] = Append(@, name)]
    /\ UNCHANGED << wrap_ref, wrap_passed, notwrap >>

\* what captured_state["function_calls"] refers to after restore_state of
\* a state whose "function_calls" is the list state_ref (None: no such key)
restore_state(own_ref, state_ref) ==
    IF IsSome(state_ref) THEN Get(state_ref) ELSE own_ref

\* wrapper.restore_state(state), the state with or without function_calls
WrapRestore(with_calls) ==
    /\ IsNone(wrap_passed)
    /\ wrap_ref' = restore_state(wrap_ref, IF with_calls THEN Some(2) ELSE None)
    /\ wrap_passed' = Some(wrap_heap[2])
    /\ UNCHANGED << wrap_heap, notwrap >>

\* wrapper.capture_function_call(name, ...): a record is appended to the
\* list captured_state["function_calls"] refers to
WrapCapture(name) ==
    /\ Len(wrap_heap[wrap_ref]) < MaxWrapCalls
    /\ wrap_heap' = [wrap_heap EXCEPT ![wrap_ref] = Append(@, name)]
    /\ UNCHANGED << wrap_ref, wrap_passed, notwrap >>

NextWrap ==
    \/ \E n \in WrapNames : WrapCallerAppend(n)
    \/ \E w \in BOOLEAN : WrapRestore(w)
    \/ \E n \in WrapNames : WrapCapture(n)

SpecWrap == InitLib /\ [][NextWrap]_vars

\* ================================================================== claims
\* the timeout the caller configured: the argument when given, else the request's
ConfiguredTimeout ==
    IF IsSome(timeout_ms) THEN Get(timeout_ms) ELSE request.timeout_ms

Statuses == { "success", "error", "timeout" }
Echo(m) == EchoPrefix \o m

RECURSIVE SumLen(_)
SumLen(parts) == IF parts = << >> THEN 0 ELSE Len(Head(parts)) + SumLen(Tail(parts))

\* t is the parts in order with exactly one space between neighbours
IsSpaceJoin(parts, t) ==
    /\ Len(t) = SumLen(parts) + Len(parts) - 1
    /\ \A k \in 1..Len(parts) :
          LET off == SumLen(SubSeq(parts, 1, k - 1)) + (k - 1)
          IN /\ SubSeq(t, off + 1, off + Len(parts[k])) = parts[k]
             /\ k < Len(parts) => t[off + Len(parts[k]) + 1] = SP

RECURSIVE IsSubsequence(_, _)
IsSubsequence(a, b) ==
    \/ a = << >>
    \/ /\ b # << >>
       /\ \/ Head(a) = Head(b) /\ IsSubsequence(Tail(a), Tail(b))
          \/ IsSubsequence(a, Tail(b))

\* C1 as stated: whatever the entrypoint does (returns, raises any exception,
\* overruns), execute_job returns a JobResult with a status of success, error
\* or timeout and the request's job_id, and no exception reaches the caller.
C1_AlwaysAResult ==
    /\ pc # "raised"
    /\ IsNone(propagated)
    /\ pc = "done" =>
          /\ IsSome(result)
          /\ Get(result).status \in Statuses
          /\ Get(result).job_id = request.job_id

\* C1 amended: the same for an entrypoint that returns, overruns or raises an
\* instance of Exception; only an exception that is not an Exception (a
\* cancellation, SystemExit, KeyboardInterrupt) reaches the caller.
C1_ResultUnlessBaseException ==
    /\ pc = "done" =>
          /\ IsSome(result)
          /\ Get(result).status \in Statuses
          /\ Get(result).job_id = request.job_id
          /\ IsNone(propagated)
    /\ pc = "raised" =>
          /\ IsSome(raised_at)
          /\ propagated = Some(Get(raised_at).exc)
          /\ ~IsInstance(Get(raised_at).exc, "Exception")
    /\ (IsSome(raised_at) /\ IsInstance(Get(raised_at).exc, "Exception")) =>
          pc = "done" /\ IsNone(propagated)

C1_Witness ==
    /\ pc = "done"
    /\ IsSome(raised_at)
    /\ Get(raised_at).exc = ExcValue
    /\ Get(result).status = "error"
    /\ Get(result).job_id = request.job_id

\* C2: in every result, updated_state is present iff the status is success,
\* and the error message is present iff the status is error.
C2_StateIffSuccessErrorIffError ==
    IsSome(result) =>
        /\ IsSome(Get(result).updated_state) <=> Get(result).status = "success"
        /\ IsSome(Get(result).error) <=> Get(result).status = "error"

\* C3 as stated: an entrypoint that raises a non-timeout exception E gets
\* status error, an error text holding E's type name and message, and neither
\* response_text nor updated_state.
C3_ErrorForAnyNonTimeout ==
    (IsSome(raised_at) /\ ~IsInstance(Get(raised_at).exc, "TimeoutError")) =>
        /\ IsSome(result)
        /\ Get(result).status = "error"

\* C3 amended: the same for a non-timeout exception that is an Exception.
C3_ErrorForNonTimeoutException ==
    (/\ IsSome(raised_at)
     /\ IsInstance(Get(raised_at).exc, "Exception")
     /\ ~IsInstance(Get(raised_at).exc, "TimeoutError")) =>
        /\ IsSome(result)
        /\ Get(result).status = "error"
        /\ IsSome(Get(result).error)
        /\ Contains(Get(Get(result).error), Get(raised_at).exc.tname)
        /\ Contains(Get(Get(result).error), Get(raised_at).exc.msg)
        /\ IsNone(Get(result).response_text)
        /\ IsNone(Get(result).updated_state)

C3_Witness ==
    /\ IsSome(raised_at)
    /\ Get(raised_at).exc = ExcValue
    /\ IsSome(result)
    /\ Get(result).error = Some(ValueErrorT \o << COLON, SP >> \o ExcValue.msg)

\* C4: execute_job does not go on waiting for the entrypoint once the
\* configured timeout has elapsed, and a turn whose entrypoint has not
\* finished within the configured timeout ends with status timeout.
C4_TimeoutWhenEntrypointOverruns ==
    /\ pc = "await_entry" => clock <= start_time + ConfiguredTimeout
    /\ (/\ IsSome(result)
        /\ \/ IsNone(ep.ended)
           \/ Get(ep.ended) > start_time + ConfiguredTimeout) =>
          Get(result).status = "timeout"

\* C5: a result has status timeout only when at least the configured
\* timeout has elapsed since the turn started.
C5_TimeoutOnlyAfterBudget ==
    (IsSome(result) /\ Get(result).status = "timeout") =>
        Get(result).processing_time_ms >= ConfiguredTimeout

\* C6 as stated, on the turns that did not time out: an entrypoint that
\* connects, registers only the echo handler, publishes nothing itself and
\* returns gets status success and response_text = f(user_input).
C6_EchoWheneverRegistered ==
    (/\ IsSome(result)
     /\ Get(result).status # "timeout"
     /\ ep.state = "returned"
     /\ connected
     /\ event_handlers = << "echo" >>
     /\ IsNone(captured_session)
     /\ Len(published) <= 1) =>
        /\ Get(result).status = "success"
        /\ Get(result).response_text = Some(Echo(request.user_input))

\* C6 amended: the same when the echo handler is registered before the
\* injection task wakes (0.3 s after the first connect).
C6_EchoWhenRegisteredInTime ==
    (/\ IsSome(result)
     /\ Get(result).status # "timeout"
     /\ ep.state = "returned"
     /\ connected
     /\ delivered = Some(<< "echo" >>)
     /\ IsNone(captured_session)
     /\ Len(published) <= 1) =>
        /\ Get(result).status = "success"
        /\ Get(result).response_text = Some(Echo(request.user_input))

C6_Witness ==
    /\ IsSome(result)
    /\ Get(result).status = "success"
    /\ delivered = Some(<< "echo" >>)
    /\ request.user_input = TxtE
    /\ Get(result).response_text = Some(<< 69, COLON, SP, 233 >>)

\* C7: the texts handed to publish_data are in the turn's buffer in the order
\* they were published (the handlers called in registration order), and the
\* response text of a successful turn is the buffer's fragments in that
\* order with single spaces between them.
C7_PublishedInOrderAndJoined ==
    /\ IsSubsequence(published, output_buffer)
    /\ IsNone(captured_session) => output_buffer = published
    /\ (IsSome(result) /\ Get(result).status = "success") =>
          LET e == Get(at_end)
          IN /\ IsSubsequence(e.published, e.buffer)
             /\ IsNone(captured_session) => e.buffer = published
             /\ e.buffer # << >> =>
                   /\ IsSome(Get(result).response_text)
                   /\ IsSpaceJoin(e.buffer, Get(Get(result).response_text))

C7_Witness ==
    /\ IsSome(result)
    /\ Get(result).status = "success"
    /\ delivered = Some(<< "greeter", "echo" >>)
    /\ published = << TxtGreet, Echo(request.user_input) >>
    /\ Get(result).response_text = Some(TxtGreet \o << SP >> \o Echo(request.user_input))

\* C8: a turn that ends with an empty buffer is a success without a
\* response text and with an updated state; a turn whose entrypoint returned
\* and that did not time out is a success, and an error result comes only
\* from an exception of the entrypoint.
C8_EmptyBufferIsSuccess ==
    IsSome(result) =>
        /\ (Get(result).status = "success" /\ Get(at_end).buffer = << >>) =>
              /\ IsNone(Get(result).response_text)
              /\ IsSome(Get(result).updated_state)
              /\ Get(Get(result).updated_state) \in DOMAIN heap
        /\ (ep.state = "returned" /\ Get(result).status # "timeout") =>
              Get(result).status = "success"
        /\ Get(result).status = "error" => IsSome(raised_at)

C8_Witness ==
    /\ IsSome(result)
    /\ Get(result).status = "success"
    /\ ~connected
    /\ Get(at_end).buffer = << >>
    /\ IsNone(Get(result).response_text)
    /\ IsSome(Get(result).updated_state)

\* C9: after the call request.state has the chat_items and metadata it had
\* before, and an updated_state is another object than request.state.
C9_RequestStateUntouched ==
    IsSome(result) =>
        /\ heap[request.state] = state_at_call
        /\ IsSome(Get(result).updated_state) =>
              Get(Get(result).updated_state) # request.state

\* C10, on the turns fed a state that the turn before extracted from the
\* agent's history: the updated state has at least as many chat_items as the
\* state the turn was given.
C10_HistoryNeverShrinks ==
    (/\ turn >= 2
     /\ IsSome(result)
     /\ Get(result).status = "success"
     /\ state_at_call.chat_items # << >>
     /\ state_at_call.metadata = MetaEmpty) =>
        Len(heap[Get(Get(result).updated_state)].chat_items)
            >= Len(state_at_call.chat_items)

\* C11: once execute_job has returned or let an exception through (success,
\* error, timeout), AgentSession.start is the method that was installed
\* before the call; while the turn runs with the framework available the
\* hook is the installed method.
C11_StartHookUninstalled ==
    /\ pc \in { "done", "raised" } => AgentSession_start = "original"
    /\ (pc \in Awaiting /\ AGENT_SESSION_AVAILABLE) =>
          AgentSession_start = "patched" /\ original_start = "original"

C11_Witness ==
    /\ pc = "done"
    /\ AGENT_SESSION_AVAILABLE
    /\ IsSome(captured_session)
    /\ Get(result).status = "timeout"
    /\ AgentSession_start = "original"

\* C12: a result with status timeout has neither a response text nor an
\* updated state, whatever was buffered before the timeout.
C12_TimeoutDiscardsOutput ==
    (IsSome(result) /\ Get(result).status = "timeout") =>
        /\ IsNone(Get(result).response_text)
        /\ IsNone(Get(result).updated_state)

C12_Witness ==
    /\ IsSome(result)
    /\ Get(result).status = "timeout"
    /\ IsNone(raised_at)
    /\ Get(at_end).buffer # << >>
    /\ IsNone(Get(result).response_text)
    /\ IsNone(Get(result).updated_state)

WithoutVersion(d) == PyDict([k \in DOMAIN d.v \ { "version" } |-> d.v[k]])

\* C14: deserialize_chat_context of {} or of a dict without items or with an
\* empty items list returns an empty history and does not raise;
\* deserialize_session_state({}) returns an empty history, function_calls
\* [], user_state "listening" and agent_state "idle"; a dict with an unknown
\* version tag is parsed as the same dict without the tag is.
C14_DecodeEmptyNeverRaises ==
    /\ (/\ cop = "deserialize_chat_context"
        /\ \/ cin = PyDict(EmptyDict)
           \/ cin.t = "dict" /\ "items" \notin DOMAIN cin.v
           \/ cin = Dict1("items", PyList(<< >>))) =>
          ~cout.raised /\ cout.value.items = << >>
    /\ (cop = "deserialize_session_state" /\ cin = PyDict(EmptyDict)) =>
          /\ ~cout.raised
          /\ cout.value.chat_context = Some([items |-> << >>])
          /\ cout.value.function_calls = PyList(<< >>)
          /\ cout.value.user_state = PyStr("listening")
          /\ cout.value.agent_state = PyStr("idle")
    /\ (/\ cop = "deserialize_session_state"
        /\ "version" \in DOMAIN cin.v) =>
          /\ cout.raised = deserialize_session_state(WithoutVersion(cin)).raised
          /\ cout.value = deserialize_session_state(WithoutVersion(cin)).value

C14_Witness ==
    /\ cop = "deserialize_session_state"
    /\ DictGet(cin, "version", PyNone) = PyStr("2.0")
    /\ DictGet(cin, "chat_context", PyNone) = Dict1("other", PyInt(1))
    /\ ~cout.raised
    /\ cout.warned
    /\ cout.value.chat_context = Some([items |-> << >>])
    /\ cout.value.user_state = PyStr("speaking")

\* C15: the record serialize_function_tool_call returns has a JSON object
\* as its arguments, whether the call's arguments are a JSON text (valid,
\* invalid, or encoding a value that is no object) or a mapping.
C15_ArgumentsAlwaysObject ==
    cop = "serialize_function_tool_call" =>
        cout.value.v["arguments"].t = "dict"

\* the JSON value of a call's arguments: parsed from a text, or the mapping
ArgumentsValue(a) ==
    IF a.t = "text" THEN JsonLoads(a.v) ELSE [raised |-> FALSE, value |-> a]

\* C16: for a call whose arguments encode a JSON value, the call rebuilt
\* from its serialization has the same call_id and name and arguments that
\* parse to the same value; a record is decoded with the name of its field
\* name when the field is present, and of function_name only when it is not.
C16_ToolCallRoundTrip ==
    /\ (cop = "tool_call_round_trip" /\ ~ArgumentsValue(cin.arguments).raised) =>
          /\ ~cout.raised
          /\ cout.value.call_id = cin.call_id
          /\ cout.value.name = cin.name
          /\ JsonLoads(cout.value.arguments.v) = ArgumentsValue(cin.arguments)
    /\ cop = "deserialize_function_tool_call" =>
          /\ "name" \in DOMAIN cin.v => ~cout.raised /\ cout.value.name = cin.v["name"]
          /\ ("name" \notin DOMAIN cin.v /\ "function_name" \in DOMAIN cin.v) =>
                ~cout.raised /\ cout.value.name = cin.v["function_name"]

\* C17: when an emission is over, every handler that was registered for the
\* event when it started has been invoked exactly once, in registration
\* order (synchronous or asynchronous, also after a handler that raised),
\* and no exception has left the emission.
C17_EveryHandlerOnceInOrder ==
    emit.state \in { "finished", "escaped" } =>
        /\ emit.state = "finished"
        /\ IsNone(emit.escaped)
        /\ emit.invoked = emit.at_start

\* C18: each patch routine takes effect at most once: Agent.__init__, the
\* chat_ctx property and AgentSession never carry more than one wrapper, and
\* after a routine's first invocation (succeeded, failed, or framework
\* missing) its flag is set and what it wrapped stays as that invocation
\* left it.
C18_PatchAtMostOnce ==
    /\ wrappers.init <= 1 /\ wrappers.chat_ctx <= 1 /\ wrappers.session <= 1
    /\ IsSome(patched_first.auto) =>
          /\ PATCHING_APPLIED.auto
          /\ << wrappers.init, wrappers.chat_ctx >> = Get(patched_first.auto)
    /\ IsSome(patched_first.sdk) =>
          /\ PATCHING_APPLIED.sdk
          /\ << wrappers.session >> = Get(patched_first.sdk)

C18_Witness ==
    /\ patched_first.auto = Some(<< 1, 0 >>)
    /\ patched_first.sdk = Some(<< 0 >>)
    /\ shim_ret.op = "patch_livekit_auto"
    /\ shim_ret.value = "skipped"
    /\ PATCHING_APPLIED = [auto |-> TRUE, sdk |-> TRUE]
    /\ wrappers = [init |-> 1, chat_ctx |-> 0, session |-> 0]

\* C19: after clear_agent_state(agent) the map has no entry for the agent's
\* id and the other entries are as before (so clearing an id without an
\* entry changes nothing); get_agent_state for an id cleared and not
\* captured since returns the default record.
C19_ClearedMeansDefault ==
    /\ shim_ret.op = "clear_agent_state" =>
          /\ shim_ret.agent \notin DOMAIN AGENT_STATES
          /\ DOMAIN AGENT_STATES = DOMAIN shim_ret.before \ { shim_ret.agent }
          /\ \A b \in DOMAIN AGENT_STATES : AGENT_STATES[b] = shim_ret.before[b]
    /\ \A a \in cleared : a \notin DOMAIN AGENT_STATES
    /\ (shim_ret.op = "get_agent_state" /\ shim_ret.agent \in cleared) =>
          shim_ret.value = [chat_context |-> None, function_calls |-> << >>,
                            user_state |-> "listening", agent_state |-> "idle"]

C19_Witness ==
    /\ shim_ret.op = "get_agent_state"
    /\ shim_ret.agent = 1
    /\ 1 \in cleared
    /\ 1 \in DOMAIN agent_objs
    /\ 2 \in DOMAIN AGENT_STATES
    /\ Len(Get(AGENT_STATES[2].chat_context).items) = 2
    /\ shim_ret.value.chat_context = None

\* C20: when an execution of the monkey-patch path has finished (an HTTP
\* /execute request, a run of the CLI's auto_entrypoint), the captured-state
\* map holds no entry for the agent that execution created.
C20_NoEntryOutlivesItsTurn ==
    (shim_ret.op \in { "http_execute", "auto_entrypoint" } /\ shim_ret.agent # 0) =>
        shim_ret.agent \notin DOMAIN AGENT_STATES

\* C21: with overlapping turns, AgentSession.start is the original method
\* once every turn has returned, and a running turn's hook is installed
C21_HooksOfOverlappingTurns ==
    /\ (jobs # << >> /\ \A t \in DOMAIN jobs : jobs[t].phase = "returned")
          => class_start = << >>
    /\ \A t \in DOMAIN jobs : jobs[t].phase = "running" => InList(class_start, t)

\* C22: a turn's buffer holds only text of the session its own entrypoint
\* started, and a turn captures only its own session and agent
C22_TurnsDoNotShareOutput ==
    \A t \in DOMAIN jobs :
        /\ \A i \in 1..Len(jobs[t].sources) : jobs[t].sources[i] = t
        /\ jobs[t].captured_session \in { None, Some(t) }
        /\ jobs[t].captured_agent \in { None, Some(t) }

C24_NothingPendingAfterReturn ==
    (pc = "done" /\ IsSome(result)) =>
        /\ IsNone(inject_at)
        /\ ep.state # "orphaned"
        /\ \A i \in 1..Len(observed.injections) : ~observed.injections[i].returned
        /\ output_buffer = Get(at_end).buffer

\* C25: a turn in which driving the session, scanning the history or
\* extracting the state raised an exception ends with status error
C25_LateExceptionIsError ==
    (IsSome(result) /\ observed.swallowed # {}) => Get(result).status = "error"

\* C26: when the fallback produced the turn's output, it is the text of the
\* last assistant entry of the captured agent's history and nothing else
C26_FallbackTakesLastAssistant ==
    (IsSome(result) /\ Get(result).status = "success" /\ observed.fallback) =>
        Get(at_end).buffer = LastAssistant(chat_ctx)

\* C27: the updated state of a successful turn is the serialization of the
\* captured agent's history when there is such an agent, and otherwise the
\* request's chat items and metadata plus the last_turn record
C27_UpdatedStateOfSuccess ==
    (IsSome(result) /\ Get(result).status = "success") =>
        LET r == Get(result)
            u == heap[Get(r.updated_state)]
        IN IF IsSome(captured_agent) /\ Get(captured_agent).has_chat_ctx
           THEN u.chat_items = ToDictItems(chat_ctx)
           ELSE /\ u.chat_items = state_at_call.chat_items
                /\ u.metadata = WithLastTurn(state_at_call.metadata, request.user_input,
                                             r.response_text,
                                             start_time + r.processing_time_ms)

\* C28: with a positive timeout, an entrypoint that returned before the
\* timeout elapsed ends in status success
C28_SuccessWhenEntrypointReturnsInTime ==
    (/\ IsSome(result)
     /\ ep.state = "returned"
     /\ ConfiguredTimeout > 0
     /\ Get(ep.ended) - start_time < ConfiguredTimeout) =>
        Get(result).status = "success"

Count(xs, x) == Cardinality({ i \in 1..Len(xs) : xs[i] = x })

\* C29: in a successful turn of a session agent (nothing published through
\* the room), no text is in the buffer more often than the agent's history
\* holds an assistant message with that text
C29_EachMessageCapturedOnce ==
    (/\ IsSome(result)
     /\ Get(result).status = "success"
     /\ IsSome(captured_agent)
     /\ published = << >>) =>
        LET b == Get(at_end).buffer
        IN \A i \in 1..Len(b) : Count(b, b[i]) <= Count(AssistantContents(chat_ctx), b[i])

\* C30: after install_agent_hooks, invoking tool T runs T's own method and
\* appends exactly one record with T's name, the call's arguments and the
\* result (error None) or the error text (result None); an exception of the
\* method reaches the caller, after the record
C30_ToolCallLoggedUnderItsName ==
    (tool_ret.op = "invoke" /\ Len(tool_agent.cells) = 1) =>
        /\ tool_ret.ran = tool_ret.tool
        /\ Len(call_log) = Len(tool_ret.before) + 1
        /\ SubSeq(call_log, 1, Len(tool_ret.before)) = tool_ret.before
        /\ LET rec == call_log[Len(call_log)]
           IN /\ rec.function_name = tool_ret.tool
              /\ rec.arguments = tool_ret.given.args \o tool_ret.given.kwargs
              /\ IF tool_ret.outcome = "returns"
                 THEN IsSome(rec.result) /\ IsNone(rec.error) /\ ~tool_ret.raised
                 ELSE IsNone(rec.result) /\ IsSome(rec.error) /\ tool_ret.raised

\* C31: install_agent_hooks called again on the same agent adds no second
\* layer of wrappers, and one tool invocation that returns or raises an
\* Exception still appends exactly one record
C31_InstallTwiceLikeOnce ==
    /\ Len(tool_agent.cells) <= 1
    /\ (tool_ret.op = "invoke" /\ tool_agent.cells # << >>
        /\ tool_ret.outcome # "cancelled") =>
           Len(call_log) = Len(tool_ret.before) + 1

\* what an agent holds once it has restored the previous state prev
RestoredFrom(prev) ==
    IF prev.t = "None" THEN NewAgent
    ELSE [chat_ctx |-> IF prev.v["chat_context"].t = "None" THEN << >>
                       ELSE prev.v["chat_context"].v["items"].v,
          function_calls |-> prev.v["function_calls"].v]

\* C32: with several /execute requests in flight, the agent constructed for
\* a request holds, after construction, the history and the tool-call log
\* of that request's own previous state, and nothing when there is none
C32_AgentRestoredFromOwnState ==
    \A r \in DOMAIN http_reqs :
        http_reqs[r].created => http_reqs[r].at_init = RestoredFrom(http_reqs[r].prev)

\* the tool-call log alone is the request's own, whatever else is in flight
C32_LogRestoredFromOwnState ==
    \A r \in DOMAIN http_reqs :
        http_reqs[r].created =>
            http_reqs[r].at_init.function_calls =
                RestoredFrom(http_reqs[r].prev).function_calls

\* C33: get_agent_state of a live agent whose chat_ctx property has not been
\* read since it was created returns the default-empty record
C33_NewAgentHasDefaultState ==
    (/\ shim_ret.op = "get_agent_state"
     /\ shim_ret.agent \in DOMAIN agent_objs
     /\ ~agent_objs[shim_ret.agent].read) => shim_ret.value = DefaultAgentState

\* the registrations of handlers other than cb, in their order
OtherRegistrations(xs, cb) == SelectSeq(xs, LAMBDA h : h # cb)

\* C34: room.off never raises; off(event) leaves the event without handlers
\* and off(event, callback) takes one registration of the callback away (none
\* when it has none), the other handlers of the event keep their order, and
\* the handlers of the other event are as they were
C34_OffRemovesWhatItNames ==
    room_ret.op = "off" =>
        LET data == room_ret.event = "data_received"
            named == IF data THEN room_handlers ELSE other_handlers
            named_before == IF data THEN room_ret.before ELSE room_ret.before_other
            rest == IF data THEN other_handlers ELSE room_handlers
            rest_before == IF data THEN room_ret.before_other ELSE room_ret.before
            cb == room_ret.callback
        IN /\ ~room_ret.raised
           /\ rest = rest_before
           /\ IF IsNone(cb) THEN named = << >>
              ELSE /\ OtherRegistrations(named, Get(cb)) =
                          OtherRegistrations(named_before, Get(cb))
                   /\ Count(named, Get(cb)) =
                          IF Count(named_before, Get(cb)) = 0 THEN 0
                          ELSE Count(named_before, Get(cb)) - 1

\* the same of a FakeRoom alone
C34_FakeRoomOff == room_class = "FakeRoom" => C34_OffRemovesWhatItNames

\* C35: in every room participant_connected has been emitted before the
\* initial message is, the initial message is emitted at most once however
\* often connect() is called, and never when the room has no initial message
C35_InitialMessageOnceAfterConnect ==
    /\ ~gw_client.reinjected
    /\ \A i \in DOMAIN gw_rooms :
          LET ev == gw_rooms[i].events
          IN /\ Count(ev, "initial_message") <= 1
             /\ \A k \in 1..Len(ev) :
                   ev[k] = "initial_message" =>
                       \E j \in 1..(k - 1) : ev[j] = "participant_connected"
             /\ ~gw_rooms[i].initial => ~InList(ev, "initial_message")

\* C36: the registry holds exactly the sessions whose entrypoint is running,
\* each with its own context, and a message event with a field missing
\* leaves the loop waiting: no entrypoint runs for it
C36_RegistryIsRunningSessions ==
    /\ DOMAIN gw_active =
          { gw_rooms[i].session : i \in { j \in DOMAIN gw_rooms :
                                             gw_rooms[j].ep = "running" } }
    /\ \A s \in DOMAIN gw_active :
          /\ gw_active[s] \in DOMAIN gw_rooms
          /\ gw_rooms[gw_active[s]].session = s
          /\ gw_rooms[gw_active[s]].ep = "running"
    /\ Cardinality({ j \in DOMAIN gw_rooms : gw_rooms[j].ep = "running" }) =
          IF gw_client.loop = "in_handler" THEN 1 ELSE 0
    /\ gw_client.last_read = "invalid" => gw_client.loop = "waiting"

\* an entrypoint has raised, its injection task still pending, and the
\* registry is empty again
C36_Witness ==
    /\ gw_client.last_end = "raise"
    /\ gw_active = << >>
    /\ \E i \in DOMAIN gw_rooms : gw_rooms[i].ep = "over"

\* C37: a message the gateway sent while the entrypoint of its session was
\* running is emitted in that session's room and starts no second
\* entrypoint: no context is created from such a message
C37_RunningSessionGetsItsMessages ==
    \A i \in DOMAIN gw_rooms : ~gw_rooms[i].during

\* C38: the message loop never reads a message event while no handler is
\* registered: whenever the loop task exists the handler is registered
C38_HandlerBeforeFirstMessage ==
    /\ gw_client.unhandled = 0
    /\ gw_client.loop # "none" => IsSome(gw_client.handler)

\* after a successful connect a message event has gone to the handler and
\* started a session
C38_Witness ==
    /\ gw_client.pc = "serving"
    /\ gw_client.last_read = "new"
    /\ gw_client.handler = Some("_handle_message")

\* C39: function calls captured on the wrapper after restore_state(state)
\* leave the function_calls list of the state that was passed in as it was
C39_RestoreLeavesCallerState ==
    IsSome(wrap_passed) => wrap_heap[2] = Get(wrap_passed)

====
